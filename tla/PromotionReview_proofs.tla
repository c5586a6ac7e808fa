------------------------ MODULE PromotionReview_proofs ------------------------
(***************************************************************************)
(* Proofs about PromotionReview, for any number of agents, versions, runs, *)
(* requests and concurrent calls, and whatever the pipeline does meanwhile.*)
(***************************************************************************)
EXTENDS PromotionReview, EvaluationPipeline_proofs

USE DEF PromotableStages

\* A call that does not run is well typed.
LEMMA IdleCallType == IdleCall \in CallState
BY DEF CallState

\* The four fields of a running call.
LEMMA ActiveCallType ==
    /\ \A pc \in {"rejecting", "approving", "checked"}, p \in Promo,
          r \in Run \cup {NoRun}, prod \in SUBSET Version :
          [pc |-> pc, promo |-> p, run |-> r, prod |-> prod] \in CallState
    /\ \A x \in CallState :
          x.pc # "idle" => /\ x.promo \in Promo
                          /\ x.run \in Run \cup {NoRun}
                          /\ x.prod \subseteq Version
BY DEF CallState, IdleCall

\* A filing handler without local state is well typed.
LEMMA FilingAtType == \A pc \in {"idle", "reading", "done"} : FilingAt(pc) \in Filing
BY DEF FilingAt, Filing, Stage

\* A request that is not filed is well typed.
LEMMA AbsentPromoType == AbsentPromo \in PromotionRequest
BY DEF AbsentPromo, PromotionRequest, Stage

\* The latest passing run is a passing one.
LEMMA LatestPassingType == \A v : LatestPassing(v) \subseteq PassingRuns(v)
BY DEF LatestPassing

\* Passing runs are runs.
LEMMA PassingRunsType == \A v : PassingRuns(v) \subseteq Run
BY DEF PassingRuns, RunsOf

\* The recommended versions of an agent are versions.
LEMMA RecommendedType == \A a : Recommended(a) \in SUBSET Version
BY DEF Recommended

\* A request is about a version of an agent.
LEMMA LockOfType == \A p \in Promo : PromoVersion[p] \in Version /\ LockOf(p) \in Agent
BY ReviewAssumption DEF LockOf

-----------------------------------------------------------------------------
(* Type correctness *)

\* Deciding a request keeps it a request.
LEMMA PromoStatusType ==
    ASSUME promo \in [Promo -> PromotionRequest], NEW p \in Promo,
           NEW s \in {"APPROVED", "REJECTED"}
    PROVE  [promo EXCEPT ![p].status = s] \in [Promo -> PromotionRequest]
<1>1. promo[p] \in PromotionRequest
  OBVIOUS
<1>2. [promo[p] EXCEPT !.status = s] \in PromotionRequest
  BY <1>1 DEF PromotionRequest
<1> QED
  BY <1>2

\* The initial states are well typed.
LEMMA ReviewInitType == ReviewInit => ReviewTypeOK
BY InitType, IdleCallType, FilingAtType, AbsentPromoType
   DEF ReviewInit, ReviewTypeOK

\* Every step keeps the types, action by action.
LEMMA ReviewStepType == ReviewTypeOK /\ [ReviewNext]_allVars => ReviewTypeOK'
<1> SUFFICES ASSUME ReviewTypeOK, [ReviewNext]_allVars PROVE ReviewTypeOK'
  OBVIOUS
<1>0. ASSUME UNCHANGED vars PROVE PipelineTypeOK'
  BY <1>0, StepType DEF ReviewTypeOK
<1> USE ReviewAssumption DEF ReviewTypeOK
<1>1. ASSUME NEW p \in Promo, BeginFiling(p) PROVE ReviewTypeOK'
  BY <1>0, <1>1, LatestPassingType, PassingRunsType
     DEF BeginFiling, Filing, PipelineTypeOK
<1>2. ASSUME NEW p \in Promo, CommitFiling(p) PROVE ReviewTypeOK'
  BY <1>0, <1>2, FilingAtType DEF CommitFiling, PromotionRequest, Filing
<1>3. ASSUME NEW p \in Promo, RefuseFiling(p) PROVE ReviewTypeOK'
  BY <1>0, <1>3, FilingAtType DEF RefuseFiling
<1>4. ASSUME NEW c \in Call, NEW p \in Promo, BeginApproval(c, p)
      PROVE  ReviewTypeOK'
  <2>1. PICK r \in Run : call' = [call EXCEPT ![c] =
                [pc |-> "approving", promo |-> p, run |-> r, prod |-> {}]]
    BY <1>4, LatestPassingType, PassingRunsType DEF BeginApproval
  <2>2. call' \in [Call -> CallState]
    BY <2>1, ActiveCallType
  <2> QED
    BY <1>0, <1>4, <2>2 DEF BeginApproval
<1>5. ASSUME NEW c \in Call, NEW p \in Promo, BeginRejection(c, p)
      PROVE  ReviewTypeOK'
  <2>1. PICK r \in Run : call' = [call EXCEPT ![c] =
                [pc |-> "rejecting", promo |-> p, run |-> r, prod |-> {}]]
    BY <1>5, LatestPassingType, PassingRunsType DEF BeginRejection
  <2>2. call' \in [Call -> CallState]
    BY <2>1, ActiveCallType
  <2> QED
    BY <1>0, <1>5, <2>2 DEF BeginRejection
<1>6. ASSUME NEW c \in Call, CheckApproval(c) PROVE ReviewTypeOK'
  BY <1>0, <1>6, ActiveCallType, RecommendedType DEF CheckApproval
<1>7. ASSUME NEW c \in Call, CommitApproval(c) PROVE ReviewTypeOK'
  <2>1. call[c].promo \in Promo /\ call[c].run \in Run \cup {NoRun}
    BY <1>7, ActiveCallType DEF CommitApproval
  <2>2. decisions' \subseteq Decision
    <3>1. [promo |-> call[c].promo, verdict |-> "APPROVE", run |-> call[c].run,
           rollback |-> promo[call[c].promo].from = "DEPRECATED"] \in Decision
      BY <2>1 DEF Decision
    <3> QED
      BY <1>7, <3>1 DEF CommitApproval
  <2>3. promo' \in [Promo -> PromotionRequest]
    BY <1>7, <2>1, PromoStatusType DEF CommitApproval
  <2>4. stage' \in [Version -> Stage]
    BY <1>7 DEF CommitApproval, Stage, PipelineTypeOK
  <2>5. PipelineTypeOK'
    BY <1>7, <2>4
       DEF CommitApproval, PipelineTypeOK, evidenceVars, EvidenceTypeOK
  <2> QED
    BY <1>7, <2>1, <2>2, <2>3, <2>5, IdleCallType DEF CommitApproval
<1>8. ASSUME NEW c \in Call, CommitRejection(c) PROVE ReviewTypeOK'
  <2>1. call[c].promo \in Promo /\ call[c].run \in Run \cup {NoRun}
    BY <1>8, ActiveCallType DEF CommitRejection
  <2>2. decisions' \subseteq Decision
    <3>1. [promo |-> call[c].promo, verdict |-> "REJECT", run |-> call[c].run,
           rollback |-> FALSE] \in Decision
      BY <2>1 DEF Decision
    <3> QED
      BY <1>8, <3>1 DEF CommitRejection
  <2>3. promo' \in [Promo -> PromotionRequest]
    BY <1>8, <2>1, PromoStatusType DEF CommitRejection
  <2> QED
    BY <1>0, <1>8, <2>1, <2>2, <2>3, IdleCallType DEF CommitRejection
<1>9. ASSUME NEW c \in Call, AbandonCall(c) PROVE ReviewTypeOK'
  BY <1>0, <1>9, IdleCallType DEF AbandonCall
<1>10. ASSUME PipelineNext, UNCHANGED reviewVars PROVE ReviewTypeOK'
  BY <1>10, StepType DEF reviewVars
<1>11. CASE UNCHANGED allVars
  BY <1>0, <1>11 DEF allVars, reviewVars
<1> QED
  BY <1>1, <1>2, <1>3, <1>4, <1>5, <1>6, <1>7, <1>8, <1>9, <1>10, <1>11
     DEF ReviewNext, ReviewStep, CallStep

-----------------------------------------------------------------------------
(* The inductive invariant *)

WasApproved(v) ==
    \E q \in Promo : PromoVersion[q] = v /\ promo[q].status = "APPROVED"

\* A handler of request_promotion inserts its request once, on evidence that
\* passed and, if it saw a deprecated version, after that version's promotion.
FilingInv ==
    \A p \in Promo :
        /\ filing[p].pc \in {"idle", "reading"} => promo[p].status = "absent"
        /\ filing[p].pc = "reading" =>
              filing[p].run \in PassingRuns(PromoVersion[p])
        /\ filing[p].pc = "reading" /\ filing[p].saw = "DEPRECATED" =>
              WasApproved(PromoVersion[p])

\* A decision under way holds the lock of its agent on a pending request.
CallHoldsLock ==
    \A c \in Call :
        call[c].pc # "idle" =>
           /\ lock[LockOf(call[c].promo)] = c
           /\ promo[call[c].promo].status = "PENDING"

\* The evidence a decision works on is not older than the cited run, and the
\* version it is going to deprecate had been promoted.
CallEvidence ==
    \A c \in Call :
        /\ call[c].pc # "idle" =>
              /\ call[c].run \in PassingRuns(PromoVersion[call[c].promo])
              /\ call[c].run >= promo[call[c].promo].run
        /\ \A x \in call[c].prod : WasApproved(x) /\ PassingRuns(x) # {}

PromotedWasApproved ==
    \A v \in Version : stage[v] \in {"RECOMMENDED", "DEPRECATED"} => WasApproved(v)

\* from_stage says deprecated only after an earlier promotion of the version.
RollbackWasApproved ==
    \A p \in Promo :
        promo[p].status # "absent" /\ promo[p].from = "DEPRECATED" =>
           \E q \in Promo \ {p} : /\ PromoVersion[q] = PromoVersion[p]
                                 /\ promo[q].status = "APPROVED"

ReviewInv ==
    /\ ReviewTypeOK
    /\ PipelineInv
    /\ FilingInv
    /\ CallHoldsLock
    /\ CallEvidence
    /\ PromotedWasApproved
    /\ RollbackWasApproved
    /\ SlotReadIsCurrent
    /\ OneRecommended
    /\ DecidedOnce
    /\ OnePendingPerVersion
    /\ CitedRunStillPasses
    /\ DecisionEvidenceNotOlder
    /\ RollbackOfApproved

\* The inductive invariant holds at the start.
LEMMA ReviewInitInv == ReviewInit => ReviewInv
<1> SUFFICES ASSUME ReviewInit PROVE ReviewInv
  OBVIOUS
<1>1. ReviewTypeOK /\ PipelineInv
  BY ReviewInitType, InitInv DEF ReviewInit
<1>2. FilingInv /\ CallHoldsLock /\ CallEvidence /\ RollbackWasApproved
  BY DEF ReviewInit, FilingInv, CallHoldsLock, CallEvidence,
         RollbackWasApproved, FilingAt, AbsentPromo, IdleCall
<1>3. \A v \in Version : stage[v] \in {"EVALUATED", "DRAFT"}
  BY DEF ReviewInit, PipelineInit
<1>4. PromotedWasApproved /\ OneRecommended /\ SlotReadIsCurrent
  BY <1>3 DEF PromotedWasApproved, OneRecommended, SlotReadIsCurrent,
              ReviewInit, IdleCall
<1>5. /\ OnePendingPerVersion /\ CitedRunStillPasses
      /\ DecisionEvidenceNotOlder /\ RollbackOfApproved
  BY DEF ReviewInit, OnePendingPerVersion, CitedRunStillPasses,
         DecisionEvidenceNotOlder, RollbackOfApproved, AbsentPromo
<1>6. DecidedOnce
  BY DEF ReviewInit, DecidedOnce, AbsentPromo
<1> QED
  BY <1>1, <1>2, <1>4, <1>5, <1>6 DEF ReviewInv

-----------------------------------------------------------------------------
(* Steps of the pipeline under the reviews *)

\* A run that passed goes on passing, and the pipeline neither recommends nor
\* deprecates a version.
LEMMA PipelineKeepsPassing ==
    ASSUME PipelineInv, [PipelineNext]_vars
    PROVE  /\ \A v : PassingRuns(v) \subseteq PassingRuns(v)'
           /\ \A v \in Version : stage'[v] \in {"RECOMMENDED", "DEPRECATED"}
                                  => stage'[v] = stage[v]
<1>1. ASSUME NEW v PROVE PassingRuns(v) \subseteq PassingRuns(v)'
  <2> SUFFICES ASSUME NEW r \in PassingRuns(v) PROVE r \in PassingRuns(v)'
    OBVIOUS
  <2>1. r \in Run /\ RunVersion[r] = v /\ run[r].gates = "passed"
    BY DEF PassingRuns, RunsOf
  <2>2. Settled(r)
    BY <2>1 DEF PipelineInv, GatesOnlyWhenCompleted, Settled
  <2>3. run'[r] = run[r]
    BY <2>1, <2>2, PinnedStep DEF RecordKept
  <2> QED
    BY <2>1, <2>3 DEF PassingRuns, RunsOf
<1>2. ASSUME NEW v \in Version, stage'[v] \in {"RECOMMENDED", "DEPRECATED"}
      PROVE  stage'[v] = stage[v]
  <2> USE <1>2 DEF PipelineInv, PipelineTypeOK
  <2>1. ASSUME NEW r \in Run, CommitRequest(r) PROVE stage'[v] = stage[v]
    BY <2>1 DEF CommitRequest
  <2>2. ASSUME NEW w \in Worker, NEW r \in Run, ClaimJob(w, r)
        PROVE  stage'[v] = stage[v]
    BY <2>2 DEF ClaimJob, WorkerOn
  <2>3. ASSUME NEW w \in Worker, MarkFailed(w) \/ PersistFails(w)
        PROVE  stage'[v] = stage[v]
    BY <2>3 DEF MarkFailed, PersistFails
  <2>4. ASSUME NEW w \in Worker, NEW clean \in BOOLEAN, PersistSuccess(w, clean)
        PROVE  stage'[v] = stage[v]
    BY <2>4 DEF PersistSuccess
  <2> QED
    BY <2>1, <2>2, <2>3, <2>4, RunWriters
<1> QED
  BY <1>1, <1>2

\* A step of the pipeline, blind writes of the stage included, keeps the invariant.
LEMMA PipelineKeepsReview ==
    ASSUME ReviewInv, [PipelineNext]_vars, UNCHANGED reviewVars
    PROVE  ReviewInv'
<1> USE DEF reviewVars
<1>1. ReviewTypeOK' /\ PipelineInv'
  BY StepType, StepInv DEF ReviewInv, ReviewTypeOK
<1>2. /\ \A v : PassingRuns(v) \subseteq PassingRuns(v)'
      /\ \A v \in Version : stage'[v] \in {"RECOMMENDED", "DEPRECATED"}
                             => stage'[v] = stage[v]
  BY PipelineKeepsPassing DEF ReviewInv
<1>3. FilingInv' /\ CallEvidence' /\ CitedRunStillPasses'
  BY <1>2 DEF ReviewInv, FilingInv, CallEvidence, CitedRunStillPasses, WasApproved
<1>4. CallHoldsLock' /\ RollbackWasApproved' /\ PromotedWasApproved'
  BY <1>2 DEF ReviewInv, CallHoldsLock, RollbackWasApproved,
              PromotedWasApproved, WasApproved
<1>5. SlotReadIsCurrent' /\ OneRecommended'
  BY <1>2 DEF ReviewInv, SlotReadIsCurrent, OneRecommended, Recommended
<1>6. /\ OnePendingPerVersion' /\ DecisionEvidenceNotOlder'
      /\ RollbackOfApproved' /\ DecidedOnce'
  BY DEF ReviewInv, OnePendingPerVersion, DecisionEvidenceNotOlder,
         RollbackOfApproved, DecidedOnce
<1> QED
  BY <1>1, <1>3, <1>4, <1>5, <1>6 DEF ReviewInv

-----------------------------------------------------------------------------
(* Steps of request_promotion *)

\* A step that leaves the variables of the pipeline alone leaves its invariant,
\* the passing runs and the recommended versions alone.
LEMMA PipelineAtRest ==
    ASSUME PipelineInv, UNCHANGED vars
    PROVE  /\ PipelineInv'
           /\ \A v : PassingRuns(v)' = PassingRuns(v)
           /\ \A v : LatestPassing(v)' = LatestPassing(v)
           /\ \A a : Recommended(a)' = Recommended(a)
           /\ stage' = stage
<1>1. PipelineInv'
  BY StepInv
<1>2. run' = run /\ stage' = stage
  BY DEF vars, pipelineVars
<1> QED
  BY <1>1, <1>2 DEF PassingRuns, RunsOf, LatestPassing, Recommended

\* So does a step of request_promotion.
LEMMA FilingKeepsReview ==
    ASSUME ReviewInv, NEW p \in Promo,
           BeginFiling(p) \/ CommitFiling(p) \/ RefuseFiling(p)
    PROVE  ReviewInv'
<1>1. ReviewTypeOK'
  BY ReviewStepType DEF ReviewInv, ReviewNext, ReviewStep
<1>2. /\ UNCHANGED <<vars, call, lock, decisions, outbox>>
  BY DEF BeginFiling, CommitFiling, RefuseFiling
<1>3. /\ PipelineInv'
      /\ \A v : PassingRuns(v)' = PassingRuns(v)
      /\ \A a : Recommended(a)' = Recommended(a)
      /\ stage' = stage
  BY <1>2, PipelineAtRest DEF ReviewInv
<1>4. SlotReadIsCurrent' /\ OneRecommended'
  BY <1>2, <1>3 DEF ReviewInv, SlotReadIsCurrent, OneRecommended
<1>5. CASE BeginFiling(p)
  <2>1. promo' = promo
    BY <1>5 DEF BeginFiling
  <2>2. FilingInv'
    <3>1. PICK r \in PassingRuns(PromoVersion[p]) :
             filing' = [filing EXCEPT ![p] = [pc |-> "reading",
                          saw |-> stage[PromoVersion[p]], run |-> r]]
      BY <1>5, LatestPassingType DEF BeginFiling
    <3>2. promo[p].status = "absent"
      BY <1>5 DEF BeginFiling, ReviewInv, FilingInv
    <3>3. stage[PromoVersion[p]] = "DEPRECATED" => WasApproved(PromoVersion[p])
      BY LockOfType DEF ReviewInv, PromotedWasApproved
    <3> QED
      BY <1>3, <2>1, <3>1, <3>2, <3>3
         DEF ReviewInv, FilingInv, ReviewTypeOK, WasApproved
  <2> QED
    BY <1>1, <1>2, <1>3, <1>4, <2>1, <2>2
       DEF ReviewInv, CallHoldsLock, CallEvidence, PromotedWasApproved,
           RollbackWasApproved, DecidedOnce, OnePendingPerVersion,
           CitedRunStillPasses, DecisionEvidenceNotOlder, RollbackOfApproved,
           WasApproved
<1>6. CASE RefuseFiling(p)
  <2>1. promo' = promo
    BY <1>6 DEF RefuseFiling
  <2>2. FilingInv'
    BY <1>3, <1>6
       DEF RefuseFiling, ReviewInv, FilingInv, ReviewTypeOK, FilingAt, WasApproved
  <2> QED
    BY <1>1, <1>2, <1>3, <1>4, <2>1, <2>2
       DEF ReviewInv, CallHoldsLock, CallEvidence, PromotedWasApproved,
           RollbackWasApproved, DecidedOnce, OnePendingPerVersion,
           CitedRunStillPasses, DecisionEvidenceNotOlder, RollbackOfApproved,
           WasApproved
<1>7. CASE CommitFiling(p)
  <2>1. /\ promo[p].status = "absent"
        /\ promo' = [promo EXCEPT ![p] = [status |-> "PENDING",
                                        from |-> filing[p].saw,
                                        run |-> filing[p].run]]
        /\ filing' = [filing EXCEPT ![p] = FilingAt("done")]
        /\ ~HasPending(PromoVersion[p])
    BY <1>7 DEF CommitFiling, ReviewInv, FilingInv
  <2>2. \A v : WasApproved(v) => WasApproved(v)'
    BY <2>1 DEF WasApproved, ReviewInv, ReviewTypeOK
  <2>3. \A q \in Promo : q # p => promo'[q] = promo[q] /\ filing'[q] = filing[q]
    BY <2>1 DEF ReviewInv, ReviewTypeOK
  <2>4. /\ promo'[p] = [status |-> "PENDING", from |-> filing[p].saw,
                        run |-> filing[p].run]
        /\ filing'[p] = FilingAt("done")
    BY <2>1 DEF ReviewInv, ReviewTypeOK
  <2>5. FilingInv'
    BY <1>3, <2>2, <2>3, <2>4 DEF ReviewInv, FilingInv, FilingAt
  <2>6. CallHoldsLock' /\ CallEvidence'
    BY <1>2, <1>3, <2>1, <2>2, <2>3, ActiveCallType
       DEF ReviewInv, CallHoldsLock, CallEvidence, ReviewTypeOK
  <2>7. PromotedWasApproved' /\ CitedRunStillPasses'
    BY <1>3, <1>7, <2>2, <2>3, <2>4
       DEF ReviewInv, PromotedWasApproved, CitedRunStillPasses, CommitFiling,
           FilingInv
  <2>8. RollbackWasApproved'
    <3>1. ASSUME filing[p].saw = "DEPRECATED"
          PROVE  \E q \in Promo \ {p} : /\ PromoVersion[q] = PromoVersion[p]
                                       /\ promo[q].status = "APPROVED"
      BY <1>7, <2>1, <3>1 DEF ReviewInv, FilingInv, WasApproved, CommitFiling
    <3> QED
      BY <2>1, <2>3, <2>4, <3>1 DEF ReviewInv, RollbackWasApproved
  <2>9. DecidedOnce' /\ DecisionEvidenceNotOlder' /\ RollbackOfApproved'
    <3>1. \A d \in decisions : d.promo # p /\ d.promo \in Promo
      BY <2>1 DEF ReviewInv, DecidedOnce, ReviewTypeOK, Decision
    <3>2. DecidedOnce'
      BY <1>2, <2>1, <2>3, <2>4 DEF ReviewInv, DecidedOnce
    <3> QED
      BY <1>2, <2>1, <2>3, <3>1, <3>2
         DEF ReviewInv, DecisionEvidenceNotOlder, RollbackOfApproved
  <2>10. OnePendingPerVersion'
    BY <2>1, <2>3 DEF ReviewInv, OnePendingPerVersion, HasPending
  <2> QED
    BY <1>1, <1>3, <1>4, <2>5, <2>6, <2>7, <2>8, <2>9, <2>10 DEF ReviewInv
<1> QED
  BY <1>5, <1>6, <1>7

-----------------------------------------------------------------------------
(* Steps of approve_promotion and reject_promotion before they commit *)

\* A step that changes nothing but calls and locks only has to keep what is
\* said of calls and locks.
LEMMA CallsOnly ==
    ASSUME ReviewInv, ReviewTypeOK',
           UNCHANGED <<vars, promo, filing, decisions, outbox>>,
           CallHoldsLock', CallEvidence', SlotReadIsCurrent'
    PROVE  ReviewInv'
<1>1. /\ PipelineInv'
      /\ \A v : PassingRuns(v)' = PassingRuns(v)
      /\ stage' = stage
  BY PipelineAtRest DEF ReviewInv
<1>2. FilingInv' /\ CitedRunStillPasses'
  BY <1>1 DEF ReviewInv, FilingInv, CitedRunStillPasses, WasApproved
<1>3. PromotedWasApproved' /\ RollbackWasApproved' /\ OneRecommended'
  BY <1>1 DEF ReviewInv, PromotedWasApproved, RollbackWasApproved, WasApproved,
              OneRecommended
<1>4. /\ DecidedOnce' /\ OnePendingPerVersion' /\ DecisionEvidenceNotOlder'
      /\ RollbackOfApproved'
  BY DEF ReviewInv, DecidedOnce, OnePendingPerVersion,
         DecisionEvidenceNotOlder, RollbackOfApproved
<1> QED
  BY <1>1, <1>2, <1>3, <1>4 DEF ReviewInv

\* So does a decision that takes the lock.
LEMMA BeginKeepsReview ==
    ASSUME ReviewInv, NEW c \in Call, NEW p \in Promo,
           BeginApproval(c, p) \/ BeginRejection(c, p)
    PROVE  ReviewInv'
<1>1. ReviewTypeOK'
  BY ReviewStepType DEF ReviewInv, ReviewNext, ReviewStep
<1>2. PICK x \in {"approving", "rejecting"}, r \in LatestPassing(PromoVersion[p]) :
        call' = [call EXCEPT ![c] = [pc |-> x, promo |-> p, run |-> r,
                                     prod |-> {}]]
  BY DEF BeginApproval, BeginRejection
<1>3. /\ lock[LockOf(p)] = NoCall
      /\ lock' = [lock EXCEPT ![LockOf(p)] = c]
      /\ promo[p].status = "PENDING"
      /\ call[c].pc = "idle"
      /\ UNCHANGED <<vars, promo, filing, decisions, outbox>>
  BY DEF BeginApproval, BeginRejection, LockPending
<1>4. /\ \A v : PassingRuns(v)' = PassingRuns(v)
      /\ \A a : Recommended(a)' = Recommended(a)
  BY <1>3, PipelineAtRest DEF ReviewInv
<1>5. /\ call'[c] = [pc |-> x, promo |-> p, run |-> r, prod |-> {}]
      /\ \A d \in Call : d # c => call'[d] = call[d]
  BY <1>2 DEF ReviewInv, ReviewTypeOK
<1>6. CallHoldsLock'
  <2> SUFFICES ASSUME NEW d \in Call, call'[d].pc # "idle"
               PROVE  /\ lock'[LockOf(call'[d].promo)] = d
                      /\ promo'[call'[d].promo].status = "PENDING"
    BY DEF CallHoldsLock, LockOf
  <2>1. CASE d = c
    BY <1>3, <1>5, <2>1, LockOfType DEF ReviewInv, ReviewTypeOK
  <2>2. CASE d # c
    <3>1. /\ lock[LockOf(call[d].promo)] = d
          /\ promo[call[d].promo].status = "PENDING"
      BY <1>5, <2>2 DEF ReviewInv, CallHoldsLock
    <3>2. LockOf(call[d].promo) # LockOf(p)
      BY <1>3, <3>1, ReviewAssumption
    <3> QED
      BY <1>3, <1>5, <2>2, <3>1, <3>2 DEF ReviewInv, ReviewTypeOK
  <2> QED
    BY <2>1, <2>2
<1>7. CallEvidence'
  <2>1. r \in PassingRuns(PromoVersion[p]) /\ r >= promo[p].run
    BY <1>2, <1>3, LatestPassingType
       DEF ReviewInv, CitedRunStillPasses, LatestPassing
  <2> QED
    BY <1>3, <1>4, <1>5, <2>1 DEF ReviewInv, CallEvidence, WasApproved
<1>8. SlotReadIsCurrent'
  BY <1>4, <1>5 DEF ReviewInv, SlotReadIsCurrent, LockOf
<1> QED
  BY <1>1, <1>3, <1>6, <1>7, <1>8, CallsOnly

\* So does an approval that reads the recommended version.
LEMMA CheckKeepsReview ==
    ASSUME ReviewInv, NEW c \in Call, CheckApproval(c)
    PROVE  ReviewInv'
<1>1. ReviewTypeOK'
  BY ReviewStepType DEF ReviewInv, ReviewNext, ReviewStep, CallStep
<1>2. UNCHANGED <<vars, promo, filing, lock, decisions, outbox>>
  BY DEF CheckApproval
<1>3. /\ \A v : PassingRuns(v)' = PassingRuns(v)
      /\ \A a : Recommended(a)' = Recommended(a)
  BY <1>2, PipelineAtRest DEF ReviewInv
<1>4. /\ call[c].pc = "approving"
      /\ call'[c] = [pc |-> "checked", promo |-> call[c].promo,
                     run |-> call[c].run,
                     prod |-> Recommended(LockOf(call[c].promo))]
      /\ \A d \in Call : d # c => call'[d] = call[d]
  BY DEF CheckApproval, ReviewInv, ReviewTypeOK
<1>5. CallHoldsLock'
  BY <1>2, <1>4 DEF ReviewInv, CallHoldsLock, LockOf
<1>6. CallEvidence'
  <2>1. \A x \in Recommended(LockOf(call[c].promo)) :
          WasApproved(x) /\ PassingRuns(x) # {}
    BY DEF Recommended, ReviewInv, PromotedWasApproved, PipelineInv,
           EvaluatedHasPassingRun
  <2> QED
    BY <1>2, <1>3, <1>4, <2>1 DEF ReviewInv, CallEvidence, WasApproved
<1>7. SlotReadIsCurrent'
  BY <1>3, <1>4 DEF ReviewInv, SlotReadIsCurrent, LockOf
<1> QED
  BY <1>1, <1>2, <1>5, <1>6, <1>7, CallsOnly

\* Call c ends; every other call keeps its record, its request and its lock.
OnlyCallEnds(c) ==
    /\ call[c].promo \in Promo
    /\ call'[c] = IdleCall
    /\ \A d \in Call : d # c =>
          /\ call'[d] = call[d]
          /\ call[d].pc # "idle" =>
                /\ call[d].promo \in Promo
                /\ call[d].promo # call[c].promo
                /\ LockOf(call[d].promo) # LockOf(call[c].promo)
                /\ lock'[LockOf(call[d].promo)] = d

\* A call that ends frees a lock that only it can hold.
LEMMA EndedCall ==
    ASSUME ReviewInv, NEW c \in Call, call[c].pc # "idle",
           call' = [call EXCEPT ![c] = IdleCall],
           lock' = [lock EXCEPT ![LockOf(call[c].promo)] = NoCall]
    PROVE  OnlyCallEnds(c)
<1>1. call[c].promo \in Promo /\ lock[LockOf(call[c].promo)] = c
  BY ActiveCallType DEF ReviewInv, CallHoldsLock, ReviewTypeOK
<1>2. ASSUME NEW d \in Call, d # c, call[d].pc # "idle"
      PROVE  /\ call[d].promo \in Promo
             /\ lock[LockOf(call[d].promo)] = d
  BY <1>2, ActiveCallType DEF ReviewInv, CallHoldsLock, ReviewTypeOK
<1> QED
  BY <1>1, <1>2, LockOfType DEF ReviewInv, ReviewTypeOK, OnlyCallEnds

\* So does a call that gives up.
LEMMA AbandonKeepsReview ==
    ASSUME ReviewInv, NEW c \in Call, AbandonCall(c)
    PROVE  ReviewInv'
<1>1. ReviewTypeOK'
  BY ReviewStepType DEF ReviewInv, ReviewNext, ReviewStep, CallStep
<1>2. UNCHANGED <<vars, promo, filing, decisions, outbox>>
  BY DEF AbandonCall
<1>3. /\ \A v : PassingRuns(v)' = PassingRuns(v)
      /\ \A a : Recommended(a)' = Recommended(a)
  BY <1>2, PipelineAtRest DEF ReviewInv
<1>4. /\ call'[c] = IdleCall
      /\ \A d \in Call : d # c =>
            /\ call'[d] = call[d]
            /\ call[d].pc # "idle" => lock'[LockOf(call[d].promo)] = d
  <2>1. OnlyCallEnds(c)
    BY EndedCall DEF AbandonCall
  <2> QED
    BY <2>1 DEF OnlyCallEnds
<1>5. CallHoldsLock'
  BY <1>2, <1>4 DEF ReviewInv, CallHoldsLock, LockOf, IdleCall
<1>6. CallEvidence'
  BY <1>2, <1>3, <1>4 DEF ReviewInv, CallEvidence, WasApproved, IdleCall
<1>7. SlotReadIsCurrent'
  BY <1>3, <1>4 DEF ReviewInv, SlotReadIsCurrent, LockOf, IdleCall
<1> QED
  BY <1>1, <1>2, <1>5, <1>6, <1>7, CallsOnly

\* A rejection decides its request and leaves every stage alone.
LEMMA CommitRejectionKeepsReview ==
    ASSUME ReviewInv, NEW c \in Call, CommitRejection(c)
    PROVE  ReviewInv'
<1> DEFINE p == call[c].promo
           r == call[c].run
<1>1. ReviewTypeOK'
  BY ReviewStepType DEF ReviewInv, ReviewNext, ReviewStep, CallStep
<1>2. UNCHANGED <<vars, filing, outbox>>
  BY DEF CommitRejection
<1>3. /\ PipelineInv'
      /\ \A v : PassingRuns(v)' = PassingRuns(v)
      /\ \A a : Recommended(a)' = Recommended(a)
      /\ stage' = stage
  BY <1>2, PipelineAtRest DEF ReviewInv
<1>4. /\ p \in Promo
      /\ call'[c] = IdleCall
      /\ \A d \in Call : d # c =>
            /\ call'[d] = call[d]
            /\ call[d].pc # "idle" =>
                  /\ call[d].promo \in Promo
                  /\ call[d].promo # p
                  /\ lock'[LockOf(call[d].promo)] = d
  <2>1. OnlyCallEnds(c)
    BY EndedCall DEF CommitRejection
  <2> QED
    BY <2>1 DEF OnlyCallEnds
<1>5. promo[p].status = "PENDING"
  BY DEF CommitRejection, ReviewInv, CallHoldsLock
<1>6. /\ promo'[p] = [promo[p] EXCEPT !.status = "REJECTED"]
      /\ \A q \in Promo \ {p} : promo'[q] = promo[q]
  BY <1>4 DEF CommitRejection, ReviewInv, ReviewTypeOK
<1>7. decisions' = decisions \cup {[promo |-> p, verdict |-> "REJECT",
                                    run |-> r, rollback |-> FALSE]}
  BY DEF CommitRejection
<1>8. /\ \A q \in Promo : promo'[q].run = promo[q].run
                          /\ promo'[q].from = promo[q].from
      /\ \A q \in Promo : promo'[q].status = "absent" <=> promo[q].status = "absent"
      /\ \A q \in Promo : promo'[q].status = "PENDING" => promo[q].status = "PENDING"
      /\ \A q \in Promo : promo[q].status = "APPROVED" <=> promo'[q].status = "APPROVED"
  <2>1. promo[p] \in PromotionRequest
    BY <1>4 DEF ReviewInv, ReviewTypeOK
  <2>2. /\ promo'[p].run = promo[p].run /\ promo'[p].from = promo[p].from
        /\ promo'[p].status = "REJECTED"
    BY <1>6, <2>1 DEF PromotionRequest
  <2> QED
    BY <1>5, <1>6, <2>2
<1>9. \A v : WasApproved(v) <=> WasApproved(v)'
  BY <1>8 DEF WasApproved
<1>10. FilingInv' /\ CitedRunStillPasses'
  BY <1>2, <1>3, <1>8, <1>9 DEF ReviewInv, FilingInv, CitedRunStillPasses
<1>11. CallHoldsLock'
  BY <1>4, <1>6 DEF ReviewInv, CallHoldsLock, IdleCall
<1>12. CallEvidence'
  BY <1>3, <1>4, <1>8, <1>9 DEF ReviewInv, CallEvidence, IdleCall
<1>13. PromotedWasApproved' /\ OneRecommended' /\ SlotReadIsCurrent'
  BY <1>3, <1>4, <1>9
     DEF ReviewInv, PromotedWasApproved, OneRecommended, SlotReadIsCurrent,
         IdleCall, LockOf
<1>14. RollbackWasApproved' /\ OnePendingPerVersion'
  BY <1>8 DEF ReviewInv, RollbackWasApproved, OnePendingPerVersion
<1>15. DecidedOnce'
  <2> SUFFICES ASSUME NEW q \in Promo
               PROVE  LET mine == {d \in decisions' : d.promo = q} IN
                      IF promo'[q].status \in {"APPROVED", "REJECTED"}
                      THEN \E d \in mine :
                              /\ mine = {d}
                              /\ d.verdict = "APPROVE"
                                    <=> promo'[q].status = "APPROVED"
                      ELSE mine = {}
    BY DEF DecidedOnce
  <2>1. CASE q = p
    <3>1. {d \in decisions : d.promo = p} = {}
      BY <1>4, <1>5 DEF ReviewInv, DecidedOnce
    <3> DEFINE x == [promo |-> p, verdict |-> "REJECT", run |-> r,
                     rollback |-> FALSE]
    <3>2. {d \in decisions' : d.promo = p} = {x} /\ x.verdict = "REJECT"
      BY <1>7, <3>1
    <3>3. promo'[p].status = "REJECTED"
      BY <1>4, <1>6 DEF ReviewInv, ReviewTypeOK, PromotionRequest
    <3> HIDE DEF x, p
    <3>4. x \in {d \in decisions' : d.promo = p}
      BY <3>2
    <3>5. \E d \in {d \in decisions' : d.promo = p} :
            /\ {e \in decisions' : e.promo = p} = {d}
            /\ d.verdict = "APPROVE" <=> promo'[p].status = "APPROVED"
      BY <3>2, <3>3, <3>4
    <3> QED
      BY <2>1, <3>3, <3>5
  <2>2. CASE q # p
    <3>1. {d \in decisions' : d.promo = q} = {d \in decisions : d.promo = q}
      BY <1>7, <2>2
    <3>2. promo'[q] = promo[q]
      BY <1>6, <2>2
    <3> QED
      BY <3>1, <3>2 DEF ReviewInv, DecidedOnce
  <2> QED
    BY <2>1, <2>2
<1>16. DecisionEvidenceNotOlder'
  <2>1. r >= promo[p].run
    BY DEF CommitRejection, ReviewInv, CallEvidence
  <2>2. \A d \in decisions : d.promo \in Promo
    BY DEF ReviewInv, ReviewTypeOK, Decision
  <2> QED
    BY <1>4, <1>7, <1>8, <2>1, <2>2 DEF ReviewInv, DecisionEvidenceNotOlder
<1>17. RollbackOfApproved'
  BY <1>7, <1>8 DEF ReviewInv, RollbackOfApproved
<1> QED
  BY <1>1, <1>3, <1>10, <1>11, <1>12, <1>13, <1>14, <1>15, <1>16, <1>17
     DEF ReviewInv

\* An approval recommends its version and deprecates the one it found.
LEMMA CommitApprovalKeepsReview ==
    ASSUME ReviewInv, NEW c \in Call, CommitApproval(c)
    PROVE  ReviewInv'
<1> DEFINE p == call[c].promo
           v == PromoVersion[p]
           prod == call[c].prod
<1>1. ReviewTypeOK'
  BY ReviewStepType DEF ReviewInv, ReviewNext, ReviewStep, CallStep
<1>2. /\ UNCHANGED <<evidenceVars, run, handler, queue, worker, filing>>
      /\ \A x : PassingRuns(x)' = PassingRuns(x)
  BY DEF CommitApproval, PassingRuns, RunsOf
<1>3. /\ p \in Promo
      /\ call'[c] = IdleCall
      /\ \A d \in Call : d # c =>
            /\ call'[d] = call[d]
            /\ call[d].pc # "idle" =>
                  /\ call[d].promo \in Promo
                  /\ call[d].promo # p
                  /\ LockOf(call[d].promo) # LockOf(p)
                  /\ lock'[LockOf(call[d].promo)] = d
  <2>1. OnlyCallEnds(c)
    BY EndedCall DEF CommitApproval
  <2> QED
    BY <2>1 DEF OnlyCallEnds
<1>4. /\ promo[p].status = "PENDING"
      /\ call[c].pc = "checked"
      /\ call[c].run \in PassingRuns(v)
      /\ call[c].run >= promo[p].run
      /\ prod \subseteq Version
      /\ \A x \in prod : WasApproved(x) /\ PassingRuns(x) # {}
      /\ Recommended(LockOf(p)) \subseteq prod
  <2>1. call[c].pc = "checked"
    BY DEF CommitApproval
  <2>2. prod \subseteq Version
    BY <2>1, ActiveCallType DEF ReviewInv, ReviewTypeOK
  <2>3. promo[p].status = "PENDING"
    BY <2>1 DEF ReviewInv, CallHoldsLock
  <2>4. /\ call[c].run \in PassingRuns(v)
        /\ call[c].run >= promo[p].run
        /\ \A x \in prod : WasApproved(x) /\ PassingRuns(x) # {}
    BY <2>1 DEF ReviewInv, CallEvidence
  <2>5. Recommended(LockOf(p)) \subseteq prod
    BY <2>1 DEF ReviewInv, SlotReadIsCurrent
  <2> QED
    BY <2>1, <2>2, <2>3, <2>4, <2>5
<1>5. /\ v \in Version
      /\ VersionAgent[v] = LockOf(p)
  BY <1>3, ReviewAssumption DEF LockOf
<1>6. /\ stage'[v] = "RECOMMENDED"
      /\ \A x \in Version : x \in prod \ {v} => stage'[x] = "DEPRECATED"
      /\ \A x \in Version : x \notin prod /\ x # v => stage'[x] = stage[x]
  BY <1>5 DEF CommitApproval
<1>7. /\ promo'[p].status = "APPROVED"
      /\ promo'[p].run = promo[p].run /\ promo'[p].from = promo[p].from
      /\ \A q \in Promo \ {p} : promo'[q] = promo[q]
  BY <1>3 DEF CommitApproval, ReviewInv, ReviewTypeOK, PromotionRequest
<1>8. decisions' = decisions \cup
         {[promo |-> p, verdict |-> "APPROVE", run |-> call[c].run,
           rollback |-> promo[p].from = "DEPRECATED"]}
  BY DEF CommitApproval
<1> HIDE DEF prod
<1>9. /\ \A q \in Promo : promo'[q].run = promo[q].run
                          /\ promo'[q].from = promo[q].from
      /\ \A q \in Promo : promo'[q].status = "absent" <=> promo[q].status = "absent"
      /\ \A q \in Promo : promo'[q].status = "PENDING" => promo[q].status = "PENDING"
      /\ \A q \in Promo : promo[q].status = "APPROVED" => promo'[q].status = "APPROVED"
  BY <1>4, <1>7
<1>10. \A x : (x = v \/ WasApproved(x)) => WasApproved(x)'
  <2>1. \E q \in Promo : PromoVersion[q] = v /\ promo'[q].status = "APPROVED"
    BY <1>3, <1>7
  <2> QED
    BY <1>9, <2>1 DEF WasApproved
<1>11. PipelineInv'
  <2>1. EvaluatedHasPassingRun'
    BY <1>2, <1>4, <1>6 DEF ReviewInv, PipelineInv, EvaluatedHasPassingRun
  <2>2. EvaluatingIsExplained'
    <3> SUFFICES ASSUME NEW x \in Version, stage'[x] = "EVALUATING"
                 PROVE  \E r \in RunsOf(x) :
                          InFlight(r)' \/ (run'[r].status = "FAILED"
                                             /\ run'[r].external)
      BY DEF EvaluatingIsExplained, RunsOf
    <3>1. stage[x] = "EVALUATING"
      BY <1>6
    <3> QED
      BY <1>2, <3>1 DEF ReviewInv, PipelineInv, EvaluatingIsExplained, InFlight
  <2>3. PipelineTypeOK'
    BY <1>1 DEF ReviewTypeOK
  <2> QED
    BY <1>2, <2>1, <2>2, <2>3
       DEF ReviewInv, PipelineInv, HandlerOwnsAbsentRun, GatesOnlyWhenCompleted,
           IdleWorkerHasNoRun, OneWorkerPerRun, WorkerHoldsDispatchedRun
<1>12. FilingInv' /\ CitedRunStillPasses'
  BY <1>2, <1>9, <1>10 DEF ReviewInv, FilingInv, CitedRunStillPasses
<1>13. CallHoldsLock'
  BY <1>3, <1>7 DEF ReviewInv, CallHoldsLock, IdleCall
<1>14. CallEvidence'
  BY <1>2, <1>3, <1>9, <1>10 DEF ReviewInv, CallEvidence, IdleCall
<1>15. PromotedWasApproved'
  BY <1>4, <1>6, <1>10 DEF ReviewInv, PromotedWasApproved
<1>16. \A x \in Version : stage'[x] = "RECOMMENDED" =>
          \/ x = v
          \/ VersionAgent[x] # LockOf(p) /\ stage[x] = "RECOMMENDED"
  BY <1>4, <1>6 DEF Recommended
<1>17. OneRecommended'
  BY <1>5, <1>16 DEF ReviewInv, OneRecommended
<1>18. SlotReadIsCurrent'
  <2> SUFFICES ASSUME NEW d \in Call, call'[d].pc = "checked"
               PROVE  Recommended(LockOf(call[d].promo))' \subseteq call'[d].prod
    BY DEF SlotReadIsCurrent, LockOf
  <2>1. /\ d # c /\ call'[d] = call[d]
        /\ LockOf(call[d].promo) # LockOf(p)
    BY <1>3 DEF IdleCall
  <2>2. \A a : a # LockOf(p) => Recommended(a)' \subseteq Recommended(a)
    BY <1>5, <1>16 DEF Recommended
  <2>3. Recommended(LockOf(call[d].promo)) \subseteq call[d].prod
    BY <2>1 DEF ReviewInv, SlotReadIsCurrent
  <2> QED
    BY <2>1, <2>2, <2>3 DEF LockOf
<1>19. RollbackWasApproved' /\ OnePendingPerVersion'
  BY <1>9 DEF ReviewInv, RollbackWasApproved, OnePendingPerVersion
<1>20. DecidedOnce'
  <2> SUFFICES ASSUME NEW q \in Promo
               PROVE  LET mine == {d \in decisions' : d.promo = q} IN
                      IF promo'[q].status \in {"APPROVED", "REJECTED"}
                      THEN \E d \in mine :
                              /\ mine = {d}
                              /\ d.verdict = "APPROVE"
                                    <=> promo'[q].status = "APPROVED"
                      ELSE mine = {}
    BY DEF DecidedOnce
  <2>1. CASE q = p
    <3>1. {d \in decisions : d.promo = p} = {}
      BY <1>3, <1>4 DEF ReviewInv, DecidedOnce
    <3> DEFINE x == [promo |-> p, verdict |-> "APPROVE", run |-> call[c].run,
                     rollback |-> promo[p].from = "DEPRECATED"]
    <3>2. {d \in decisions' : d.promo = p} = {x} /\ x.verdict = "APPROVE"
      BY <1>8, <3>1
    <3> HIDE DEF x, p
    <3>3. x \in {d \in decisions' : d.promo = p}
      BY <3>2
    <3>4. \E d \in {d \in decisions' : d.promo = p} :
            /\ {e \in decisions' : e.promo = p} = {d}
            /\ d.verdict = "APPROVE" <=> promo'[p].status = "APPROVED"
      BY <1>7, <3>2, <3>3
    <3> QED
      BY <1>7, <2>1, <3>4
  <2>2. CASE q # p
    <3>1. {d \in decisions' : d.promo = q} = {d \in decisions : d.promo = q}
      BY <1>8, <2>2
    <3>2. promo'[q] = promo[q]
      BY <1>7, <2>2
    <3> QED
      BY <3>1, <3>2 DEF ReviewInv, DecidedOnce
  <2> QED
    BY <2>1, <2>2
<1>21. DecisionEvidenceNotOlder'
  <2>1. \A d \in decisions : d.promo \in Promo
    BY DEF ReviewInv, ReviewTypeOK, Decision
  <2> QED
    BY <1>3, <1>4, <1>8, <1>9, <2>1 DEF ReviewInv, DecisionEvidenceNotOlder
<1>22. RollbackOfApproved'
  <2>1. promo[p].from = "DEPRECATED" =>
           \E q \in Promo \ {p} : /\ PromoVersion[q] = v
                                 /\ promo[q].status = "APPROVED"
    BY <1>3, <1>4 DEF ReviewInv, RollbackWasApproved
  <2>2. ASSUME NEW d \in decisions, d.rollback
        PROVE  \E q \in Promo \ {d.promo} :
                  /\ PromoVersion[q] = PromoVersion[d.promo]
                  /\ promo'[q].status = "APPROVED"
    BY <1>9, <2>2 DEF ReviewInv, RollbackOfApproved
  <2>3. ASSUME NEW d \in decisions' \ decisions
        PROVE  d.promo = p /\ (d.rollback => promo[p].from = "DEPRECATED")
    <3>1. d = [promo |-> p, verdict |-> "APPROVE", run |-> call[c].run,
               rollback |-> promo[p].from = "DEPRECATED"]
      BY <1>8
    <3> QED
      BY <3>1
  <2>4. ASSUME NEW d \in decisions' \ decisions, d.rollback
        PROVE  \E q \in Promo \ {d.promo} :
                  /\ PromoVersion[q] = PromoVersion[d.promo]
                  /\ promo'[q].status = "APPROVED"
    BY <1>9, <2>1, <2>3, <2>4
  <2> QED
    BY <2>2, <2>4 DEF RollbackOfApproved
<1> QED
  BY <1>1, <1>11, <1>12, <1>13, <1>14, <1>15, <1>17, <1>18, <1>19, <1>20,
     <1>21, <1>22
     DEF ReviewInv

-----------------------------------------------------------------------------
(* The theorems *)

\* The invariant is inductive.
LEMMA ReviewStepInv == ReviewInv /\ [ReviewNext]_allVars => ReviewInv'
<1> SUFFICES ASSUME ReviewInv, [ReviewNext]_allVars PROVE ReviewInv'
  OBVIOUS
<1>1. CASE UNCHANGED allVars
  BY <1>1, PipelineKeepsReview DEF allVars
<1>2. CASE PipelineNext /\ UNCHANGED reviewVars
  BY <1>2, PipelineKeepsReview
<1>3. CASE ReviewStep
  BY <1>3, FilingKeepsReview, BeginKeepsReview, CheckKeepsReview,
     AbandonKeepsReview, CommitRejectionKeepsReview, CommitApprovalKeepsReview
     DEF ReviewStep, CallStep
<1> QED
  BY <1>1, <1>2, <1>3 DEF ReviewNext

\* The inductive invariant holds in every behaviour.
LEMMA ReviewInvariance == ReviewSpec => []ReviewInv
BY ReviewInitInv, ReviewStepInv, PTL DEF ReviewSpec

\* Every variable of the reviews and of the pipeline keeps its type.
THEOREM ReviewTypeCorrect == ReviewSpec => []ReviewTypeOK
BY ReviewInvariance, PTL DEF ReviewInv

\* However many reviewers, requests and evaluations, at most one version of an
\* agent is recommended.
THEOREM RecommendedIsUnique == ReviewSpec => []OneRecommended
BY ReviewInvariance, PTL DEF ReviewInv

\* What an approval read of the recommended version holds until it commits, so
\* the advisory lock is enough and the unique index never refuses the commit.
THEOREM SlotReadHolds == ReviewSpec => []SlotReadIsCurrent
BY ReviewInvariance, PTL DEF ReviewInv

\* A request gets one decision, of the kind its status says.
THEOREM DecisionIsUnique == ReviewSpec => []DecidedOnce
BY ReviewInvariance, PTL DEF ReviewInv

\* The early look for a pending request and the partial unique index leave at
\* most one pending request per version.
THEOREM PendingIsUnique == ReviewSpec => []OnePendingPerVersion
BY ReviewInvariance, PTL DEF ReviewInv

\* The gates of the cited run pass for as long as the request exists.
THEOREM CitedRunHolds == ReviewSpec => []CitedRunStillPasses
BY ReviewInvariance, PTL DEF ReviewInv

\* A decision rests on the cited run or on a later passing one.
THEOREM EvidenceMovesForward == ReviewSpec => []DecisionEvidenceNotOlder
BY ReviewInvariance, PTL DEF ReviewInv

\* What is audited as a rollback goes back to a version promoted before.
THEOREM RollbackIsOfApproved == ReviewSpec => []RollbackOfApproved
BY ReviewInvariance, PTL DEF ReviewInv

-----------------------------------------------------------------------------
(* The pipeline under the reviews *)

\* Every step of the reviews is one of the pipeline, an approval, or leaves the
\* pipeline alone; an approval writes stages and nothing else of it.
LEMMA ReviewWriters ==
    ASSUME [ReviewNext]_allVars
    PROVE  \/ [PipelineNext]_vars
           \/ /\ \E c \in Call : CommitApproval(c)
              /\ UNCHANGED <<run, handler, queue, worker>>
BY DEF ReviewNext, ReviewStep, CallStep, allVars, BeginFiling, CommitFiling,
       RefuseFiling, BeginApproval, BeginRejection, CheckApproval,
       CommitApproval, CommitRejection, AbandonCall

\* The guarantees of the pipeline survive the reviews, which write the stage it
\* writes and take no notice of runs in flight: claims are exclusive and kept,
\* verdicts backed, and a version in evaluating explained.
THEOREM PipelineHoldsUnderReview ==
    ReviewSpec => [](/\ OneWorkerPerRun
                     /\ WorkerHoldsDispatchedRun
                     /\ EvaluatedHasPassingRun
                     /\ EvaluatingIsExplained)
<1>1. ReviewInv => /\ OneWorkerPerRun
                   /\ WorkerHoldsDispatchedRun
                   /\ EvaluatedHasPassingRun
                   /\ EvaluatingIsExplained
  BY DEF ReviewInv, PipelineInv
<1> QED
  BY <1>1, ReviewInvariance, PTL

\* So does the record of a run, which is what a decision cites as its evidence:
\* whatever is decided, it moves forward only and keeps what it pinned.
THEOREM RecordIsPinnedUnderReview ==
    ReviewSpec => [][\A r \in Run : RecordKept(r) /\ Progress(r)]_allVars
<1>1. ASSUME ReviewInv, [ReviewNext]_allVars, NEW r \in Run
      PROVE  RecordKept(r) /\ Progress(r)
  <2>1. CASE [PipelineNext]_vars
    BY <1>1, <2>1, PinnedStep, ProgressStep DEF ReviewInv
  <2>2. CASE UNCHANGED <<run, handler, queue, worker>>
    <3>1. run[r].status \in RunStatus
      BY <1>1 DEF ReviewInv, ReviewTypeOK, PipelineTypeOK, RunReference
    <3> QED
      BY <2>2, <3>1 DEF RecordKept, Progress, Later, Queued, Abandoned, RunStatus
  <2> QED
    BY <1>1, <2>1, <2>2, ReviewWriters
<1>2. ReviewInv /\ [ReviewNext]_allVars
         => [\A r \in Run : RecordKept(r) /\ Progress(r)]_allVars
  BY <1>1
<1> QED
  BY <1>2, ReviewInvariance, PTL DEF ReviewSpec

-----------------------------------------------------------------------------
(* The recommended version of an agent *)

\* The version an approval found recommended is one of its agent.
ProdIsOfAgent ==
    \A c \in Call : \A x \in call[c].prod : VersionAgent[x] = LockOf(call[c].promo)

\* The version under approval is not recommended already.
ApprovedIsNotRecommended ==
    \A c \in Call :
        call[c].pc \in {"approving", "checked"}
            => stage[PromoVersion[call[c].promo]] # "RECOMMENDED"

SlotInv == ReviewInv /\ ProdIsOfAgent /\ ApprovedIsNotRecommended

\* What the commit of an approval does to the recommended versions: its own comes
\* in, that of its agent goes out, those of other agents stay.
LEMMA ApprovalMovesSlot ==
    ASSUME SlotInv, NEW c \in Call, CommitApproval(c),
           NEW p, p = call[c].promo, NEW v, v = PromoVersion[p]
    PROVE  /\ p \in Promo /\ v \in Version
           /\ promo[p].status = "PENDING"
           /\ v \notin Recommended(LockOf(p))
           /\ Recommended(LockOf(p))' = {v}
           /\ \A a \in Agent \ {LockOf(p)} : Recommended(a)' = Recommended(a)
           /\ \A x \in Version :
                 VersionAgent[x] # LockOf(p) => stage'[x] = stage[x]
           /\ \A x \in Recommended(LockOf(p)) : stage'[x] = "DEPRECATED"
<1>1. /\ call[c].pc = "checked"
      /\ stage' = [x \in Version |->
                     CASE x = v -> "RECOMMENDED"
                       [] x \in call[c].prod \ {v} -> "DEPRECATED"
                       [] OTHER -> stage[x]]
  BY DEF CommitApproval
<1>2. p \in Promo /\ promo[p].status = "PENDING"
  BY <1>1, ActiveCallType DEF SlotInv, ReviewInv, CallHoldsLock, ReviewTypeOK
<1>3. v \in Version /\ VersionAgent[v] = LockOf(p)
  BY <1>2, LockOfType DEF LockOf
<1>4. stage[v] # "RECOMMENDED"
  BY <1>1 DEF SlotInv, ApprovedIsNotRecommended
<1>5. /\ Recommended(LockOf(p)) \subseteq call[c].prod
      /\ \A x \in call[c].prod : VersionAgent[x] = LockOf(p)
  BY <1>1 DEF SlotInv, ReviewInv, SlotReadIsCurrent, ProdIsOfAgent
<1>6. \A x \in Version : VersionAgent[x] # LockOf(p) => stage'[x] = stage[x]
  BY <1>1, <1>3, <1>5
<1>7. Recommended(LockOf(p))' = {v}
  <2>1. v \in Recommended(LockOf(p))'
    BY <1>1, <1>3 DEF Recommended, LockOf
  <2>2. ASSUME NEW x \in Recommended(LockOf(p))', x # v PROVE FALSE
    <3>1. x \in Version /\ VersionAgent[x] = LockOf(p) /\ stage'[x] = "RECOMMENDED"
      BY DEF Recommended, LockOf
    <3>2. x \notin call[c].prod /\ stage[x] = "RECOMMENDED"
      BY <1>1, <2>2, <3>1
    <3> QED
      BY <1>5, <3>1, <3>2 DEF Recommended
  <2> QED
    BY <2>1, <2>2
<1>8. \A a \in Agent \ {LockOf(p)} : Recommended(a)' = Recommended(a)
  BY <1>6 DEF Recommended
<1>9. v \notin Recommended(LockOf(p))
  BY <1>4 DEF Recommended
<1>10. \A x \in Recommended(LockOf(p)) : stage'[x] = "DEPRECATED"
  BY <1>1, <1>5, <1>9 DEF Recommended
<1> QED
  BY <1>2, <1>3, <1>6, <1>7, <1>8, <1>9, <1>10

\* Every step keeps what is said of the approvals under way: the lock keeps the
\* version from being recommended by another one.
LEMMA SlotStepInv == SlotInv /\ [ReviewNext]_allVars => SlotInv'
<1> SUFFICES ASSUME SlotInv, [ReviewNext]_allVars
             PROVE  ProdIsOfAgent' /\ ApprovedIsNotRecommended'
  BY ReviewStepInv DEF SlotInv
<1> DEFINE Kept == ProdIsOfAgent' /\ ApprovedIsNotRecommended'
<1>0. call \in [Call -> CallState]
  BY DEF SlotInv, ReviewInv, ReviewTypeOK
<1> USE DEF SlotInv, ProdIsOfAgent, ApprovedIsNotRecommended
<1>1. CASE UNCHANGED <<stage, call>>
  BY <1>1 DEF LockOf
<1>2. CASE [PipelineNext]_vars /\ UNCHANGED reviewVars
  <2>1. \A v \in Version : stage'[v] = "RECOMMENDED" => stage[v] = "RECOMMENDED"
    BY <1>2, PipelineKeepsPassing DEF ReviewInv
  <2>2. \A c \in Call : call[c].pc # "idle" => PromoVersion[call[c].promo] \in Version
    BY <1>0, ActiveCallType, LockOfType
  <2> QED
    BY <1>2, <2>1, <2>2 DEF reviewVars, LockOf
<1>3. ASSUME NEW c \in Call, NEW p \in Promo, BeginApproval(c, p) PROVE Kept
  <2>1. /\ stage' = stage /\ stage[PromoVersion[p]] # "RECOMMENDED"
        /\ call'[c].promo = p /\ call'[c].prod = {}
        /\ \A d \in Call \ {c} : call'[d] = call[d]
    BY <1>0, <1>3 DEF BeginApproval, vars, pipelineVars
  <2> QED
    BY <2>1 DEF LockOf
<1>4. ASSUME NEW c \in Call, NEW p \in Promo, BeginRejection(c, p) PROVE Kept
  BY <1>0, <1>4 DEF BeginRejection, vars, pipelineVars, LockOf
<1>5. ASSUME NEW c \in Call, CheckApproval(c) PROVE Kept
  <2>1. /\ stage' = stage /\ call[c].pc = "approving"
        /\ call'[c].promo = call[c].promo
        /\ call'[c].prod = Recommended(LockOf(call[c].promo))
        /\ \A d \in Call \ {c} : call'[d] = call[d]
    BY <1>0, <1>5 DEF CheckApproval, vars, pipelineVars
  <2> QED
    BY <2>1 DEF LockOf, Recommended
<1>6. ASSUME NEW c \in Call, CommitRejection(c) \/ AbandonCall(c) PROVE Kept
  <2>1. /\ stage' = stage /\ call'[c] = IdleCall
        /\ \A d \in Call \ {c} : call'[d] = call[d]
    BY <1>0, <1>6 DEF CommitRejection, AbandonCall, vars, pipelineVars
  <2> QED
    BY <2>1 DEF LockOf, IdleCall
<1>7. ASSUME NEW c \in Call, CommitApproval(c) PROVE Kept
  <2>1. OnlyCallEnds(c)
    BY <1>7, EndedCall DEF CommitApproval
  <2>2. \A x \in Version :
           VersionAgent[x] # LockOf(call[c].promo) => stage'[x] = stage[x]
    BY <1>7, ApprovalMovesSlot
  <2>3. \A d \in Call \ {c} : call[d].pc # "idle" =>
           /\ PromoVersion[call[d].promo] \in Version
           /\ VersionAgent[PromoVersion[call[d].promo]] # LockOf(call[c].promo)
    BY <2>1, LockOfType DEF OnlyCallEnds, LockOf
  <2>4. ProdIsOfAgent'
    BY <2>1 DEF OnlyCallEnds, IdleCall, LockOf
  <2>5. ApprovedIsNotRecommended'
    BY <2>1, <2>2, <2>3 DEF OnlyCallEnds, IdleCall
  <2> QED
    BY <2>4, <2>5
<1> QED
  BY <1>1, <1>2, <1>3, <1>4, <1>5, <1>6, <1>7
     DEF ReviewNext, ReviewStep, CallStep, allVars, vars, pipelineVars, reviewVars,
         BeginFiling, CommitFiling, RefuseFiling

\* It holds in every behaviour.
LEMMA SlotInvariance == ReviewSpec => []SlotInv
<1>1. ReviewInit => SlotInv
  BY ReviewInitInv
     DEF ReviewInit, SlotInv, ProdIsOfAgent, ApprovedIsNotRecommended, IdleCall
<1> QED
  BY <1>1, SlotStepInv, PTL DEF ReviewSpec

-----------------------------------------------------------------------------
(* How a version stops being recommended *)

Superseded(v) ==
    /\ stage'[v] = "DEPRECATED"
    /\ \E w \in Version \ {v} :
          VersionAgent[w] = VersionAgent[v] /\ stage'[w] = "RECOMMENDED"

\* A run of the version may still write its stage: its handler is past the guard
\* of the stage, or a delivery is working on it.
LateRun(v) ==
    \E r \in RunsOf(v) :
        handler[r].pc = "reading" \/ \E w \in Worker : worker[w].run = r

LeavesRecommended(v) == stage[v] = "RECOMMENDED" /\ stage'[v] # "RECOMMENDED"

\* The pipeline takes out of recommended only a version with a late run.
LEMMA PipelineTakesLate ==
    ASSUME PipelineInv, [PipelineNext]_vars, NEW v \in Version, LeavesRecommended(v)
    PROVE  LateRun(v)
<1> USE PipelineAssumption
    DEF PipelineInv, PipelineTypeOK, LeavesRecommended, LateRun, RunsOf
<1>1. ASSUME NEW r \in Run, CommitRequest(r) PROVE LateRun(v)
  BY <1>1 DEF CommitRequest
<1>2. ASSUME NEW w \in Worker, NEW r \in Run, ClaimJob(w, r) PROVE LateRun(v)
  BY <1>2 DEF ClaimJob, WorkerOn
<1>3. ASSUME NEW w \in Worker, worker[w].pc # "idle",
             \A x \in Version : x # RunVersion[worker[w].run] => stage'[x] = stage[x]
      PROVE  LateRun(v)
  <2>1. worker[w].run \in Run
    BY <1>3 DEF WorkerHoldsDispatchedRun
  <2> QED
    BY <1>3, <2>1
<1>4. ASSUME NEW w \in Worker, MarkFailed(w) \/ PersistFails(w) PROVE LateRun(v)
  BY <1>3, <1>4 DEF MarkFailed, PersistFails
<1>5. ASSUME NEW w \in Worker, NEW clean \in BOOLEAN, PersistSuccess(w, clean)
      PROVE  LateRun(v)
  BY <1>3, <1>5 DEF PersistSuccess
<1> QED
  BY <1>1, <1>2, <1>4, <1>5, RunWriters

\* Two versions of an agent are the same if both are recommended, so what an
\* approval takes out of recommended it supersedes.
LEMMA ApprovalSupersedes ==
    ASSUME SlotInv, NEW c \in Call, CommitApproval(c),
           NEW v \in Version, LeavesRecommended(v)
    PROVE  Superseded(v)
<1>0. PICK p, w : p = call[c].promo /\ w = PromoVersion[p]
  OBVIOUS
<1>1. /\ p \in Promo /\ w \in Version
      /\ w \notin Recommended(LockOf(p))
      /\ Recommended(LockOf(p))' = {w}
      /\ \A x \in Version : VersionAgent[x] # LockOf(p) => stage'[x] = stage[x]
      /\ \A x \in Recommended(LockOf(p)) : stage'[x] = "DEPRECATED"
  BY <1>0, ApprovalMovesSlot
<1>2. VersionAgent[v] = LockOf(p) /\ v \in Recommended(LockOf(p))
  BY <1>1 DEF LeavesRecommended, Recommended
<1>3. VersionAgent[w] = LockOf(p) /\ stage'[w] = "RECOMMENDED"
  <2>1. w \in Recommended(LockOf(p))'
    BY <1>1
  <2> QED
    BY <2>1 DEF Recommended, LockOf
<1> QED
  BY <1>1, <1>2, <1>3 DEF Superseded

\* What every step may do to a recommended version.
LEMMA WayOutStep ==
    ASSUME SlotInv, [ReviewNext]_allVars, NEW v \in Version, LeavesRecommended(v)
    PROVE  Superseded(v) \/ (LateRun(v) /\ [PipelineNext]_vars)
BY ReviewWriters, ApprovalSupersedes, PipelineTakesLate DEF SlotInv, ReviewInv

\* There is one way out of recommended beside the documented one, and it needs a
\* run of that very version that was requested, or being worked on, while the
\* version was recommended: no review, no other version's run, no drift of the
\* evidence takes a version out.
THEOREM WayOutIsKnown ==
    ReviewSpec => [][\A v \in Version :
                       LeavesRecommended(v) => Superseded(v) \/ LateRun(v)]_allVars
<1>1. SlotInv /\ [ReviewNext]_allVars
         => [\A v \in Version :
               LeavesRecommended(v) => Superseded(v) \/ LateRun(v)]_allVars
  BY WayOutStep
<1> QED
  BY <1>1, SlotInvariance, PTL DEF ReviewSpec

-----------------------------------------------------------------------------
(* The reviews and RecommendedSlot *)

\* What the slot holds of a set of recommended versions.
HeldOf(S) == IF S = {} THEN NoVersion ELSE CHOOSE v \in S : TRUE

\* The slot in this state and in the next.
LEMMA SlotHolds ==
    /\ \A a : RecommendedVersion(a) = HeldOf(Recommended(a))
    /\ \A a : RecommendedVersion(a)' = HeldOf(Recommended(a)')
    /\ \A v : HeldOf({v}) = v
    /\ HeldOf({}) = NoVersion
    /\ \A S : S # {} => HeldOf(S) \in S
BY DEF RecommendedVersion, HeldOf

\* A version leaves recommended only when another one of its agent comes in.
SupersededOnly == \A v \in Version : LeavesRecommended(v) => Superseded(v)

\* A step that recommends nothing takes nothing out either, if supersession is
\* the only way out: the slot stays as it is.
LEMMA SlotAtRest ==
    ASSUME OneRecommended, SupersededOnly,
           \A v \in Version : stage'[v] = "RECOMMENDED" => stage[v] = "RECOMMENDED"
    PROVE  \A a \in Agent : Recommended(a)' = Recommended(a)
<1>1. ASSUME NEW v \in Version, stage[v] = "RECOMMENDED"
      PROVE  stage'[v] = "RECOMMENDED"
  BY <1>1 DEF OneRecommended, SupersededOnly, Superseded, LeavesRecommended
<1> QED
  BY <1>1 DEF Recommended

\* A step of the reviews in which no version leaves recommended but by
\* supersession is a step of the slot, or leaves it alone.
LEMMA ReviewStepIsSlotStep ==
    ASSUME SlotInv, [ReviewNext]_allVars, SupersededOnly
    PROVE  [Slot!SlotNext]_(Slot!slotVars)
<1> DEFINE slot == [a \in Agent |-> RecommendedVersion(a)]
           status == [p \in Promo |-> promo[p].status]
<1>0. promo \in [Promo -> PromotionRequest]
  BY DEF SlotInv, ReviewInv, ReviewTypeOK
<1>1. ASSUME \A a \in Agent : Recommended(a)' = Recommended(a)
      PROVE  slot' = slot
  BY <1>1, SlotHolds
<1>2. ASSUME UNCHANGED stage PROVE slot' = slot
  BY <1>1, <1>2 DEF Recommended
<1>3. CASE UNCHANGED <<stage, promo>>
  BY <1>2, <1>3 DEF Slot!slotVars
<1>4. CASE [PipelineNext]_vars /\ UNCHANGED reviewVars
  <2>1. \A v \in Version : stage'[v] = "RECOMMENDED" => stage[v] = "RECOMMENDED"
    BY <1>4, PipelineKeepsPassing DEF SlotInv, ReviewInv
  <2>2. slot' = slot
    BY <1>1, <2>1, SlotAtRest DEF SlotInv, ReviewInv
  <2> QED
    BY <1>4, <2>2 DEF Slot!slotVars, reviewVars
<1>5. ASSUME NEW p \in Promo, CommitFiling(p) PROVE Slot!SlotNext
  <2>1. status[p] = "absent"
    BY <1>5 DEF CommitFiling, SlotInv, ReviewInv, FilingInv
  <2>2. status' = [status EXCEPT ![p] = "PENDING"]
    BY <1>0, <1>5 DEF CommitFiling
  <2>3. slot' = slot
    BY <1>2, <1>5 DEF CommitFiling, vars, pipelineVars
  <2>4. Slot!File(p)
    BY <2>1, <2>2, <2>3 DEF Slot!File
  <2> QED
    BY <2>4 DEF Slot!SlotNext
<1>6. ASSUME NEW c \in Call, CommitRejection(c) PROVE Slot!SlotNext
  <2>1. PICK p \in Promo : p = call[c].promo /\ promo[p].status = "PENDING"
    BY <1>6, ActiveCallType
       DEF CommitRejection, SlotInv, ReviewInv, CallHoldsLock, ReviewTypeOK
  <2>2. status' = [status EXCEPT ![p] = "REJECTED"]
    BY <1>0, <1>6, <2>1 DEF CommitRejection, PromotionRequest
  <2>3. slot' = slot
    BY <1>2, <1>6 DEF CommitRejection, vars, pipelineVars
  <2>4. Slot!Reject(p)
    BY <2>1, <2>2, <2>3 DEF Slot!Reject
  <2> QED
    BY <2>4 DEF Slot!SlotNext
<1>7. ASSUME NEW c \in Call, CommitApproval(c) PROVE Slot!SlotNext
  <2>1. PICK p \in Promo : p = call[c].promo /\ promo[p].status = "PENDING"
    BY <1>7, ApprovalMovesSlot
  <2> DEFINE v == PromoVersion[p]
             o == VersionAgent[v]
  <2>2. v \in Version /\ o \in Agent /\ LockOf(p) = o
    BY LockOfType DEF LockOf
  <2>3. /\ v \notin Recommended(o)
        /\ Recommended(o)' = {v}
        /\ \A a \in Agent \ {o} : Recommended(a)' = Recommended(a)
    BY <1>7, <2>1, <2>2, ApprovalMovesSlot
  <2>4. slot' = [slot EXCEPT ![o] = v]
    <3>1. RecommendedVersion(o)' = v
      BY <2>3, SlotHolds
    <3>2. \A a \in Agent \ {o} : RecommendedVersion(a)' = RecommendedVersion(a)
      BY <2>3, SlotHolds
    <3> QED
      BY <3>1, <3>2
  <2>5. slot[o] # v
    <3>1. RecommendedVersion(o) = NoVersion \/ RecommendedVersion(o) \in Recommended(o)
      BY SlotHolds
    <3> QED
      BY <2>2, <2>3, <3>1, ReviewAssumption
  <2>6. status' = [status EXCEPT ![p] = "APPROVED"]
    BY <1>0, <1>7, <2>1 DEF CommitApproval, PromotionRequest
  <2>7. status[p] = "PENDING"
    BY <2>1
  <2>8. Slot!Approve(p)
    BY <2>4, <2>5, <2>6, <2>7 DEF Slot!Approve
  <2> QED
    BY <2>8 DEF Slot!SlotNext
<1> QED
  BY <1>3, <1>4, <1>5, <1>6, <1>7
     DEF ReviewNext, ReviewStep, CallStep, allVars, vars, pipelineVars, reviewVars,
         BeginFiling, RefuseFiling, BeginApproval, BeginRejection, CheckApproval,
         AbandonCall

\* The initial states are those of the slot: nothing is recommended.
LEMMA ReviewInitIsSlotInit == ReviewInit => Slot!SlotInit
<1> SUFFICES ASSUME ReviewInit PROVE Slot!SlotInit
  OBVIOUS
<1>1. \A a \in Agent : Recommended(a) = {}
  BY DEF ReviewInit, PipelineInit, Recommended
<1> QED
  BY <1>1, SlotHolds DEF ReviewInit, AbsentPromo, Slot!SlotInit

\* And the other way round: a step of the slot takes no version out of
\* recommended but by supersession.
LEMMA SlotStepSupersedes ==
    ASSUME SlotInv, [ReviewNext]_allVars, [Slot!SlotNext]_(Slot!slotVars),
           NEW v \in Version, LeavesRecommended(v)
    PROVE  Superseded(v)
<1> DEFINE a == VersionAgent[v]
           slot == [o \in Agent |-> RecommendedVersion(o)]
<1>1. CASE \E c \in Call : CommitApproval(c)
  BY <1>1, ApprovalSupersedes
<1>2. CASE [PipelineNext]_vars
  <2>1. a \in Agent /\ v \in Recommended(a)
    BY ReviewAssumption DEF LeavesRecommended, Recommended
  <2>2. slot[a] \in Version
    BY <2>1, SlotHolds DEF Recommended
  <2>3. Recommended(a)' = {}
    <3>1. ASSUME NEW w \in Recommended(a)' PROVE FALSE
      <4>1. w \in Version /\ VersionAgent[w] = a /\ stage'[w] = "RECOMMENDED"
        BY DEF Recommended
      <4>2. stage[w] = "RECOMMENDED"
        BY <1>2, <4>1, PipelineKeepsPassing DEF SlotInv, ReviewInv
      <4>3. w = v
        BY <4>1, <4>2 DEF SlotInv, ReviewInv, OneRecommended, LeavesRecommended
      <4> QED
        BY <4>1, <4>3 DEF LeavesRecommended
    <3> QED
      BY <3>1
  <2>4. slot'[a] = NoVersion
    BY <2>1, <2>3, SlotHolds
  <2>5. slot'[a] # slot[a] /\ slot'[a] \notin Version
    BY <2>2, <2>4, ReviewAssumption
  <2>6. PICK p \in Promo : Slot!File(p) \/ Slot!Approve(p) \/ Slot!Reject(p)
    BY <2>5 DEF Slot!SlotNext, Slot!slotVars
  <2>7. CASE Slot!File(p) \/ Slot!Reject(p)
    BY <2>5, <2>7 DEF Slot!File, Slot!Reject
  <2>8. CASE Slot!Approve(p)
    <3>1. slot' = [slot EXCEPT ![VersionAgent[PromoVersion[p]]] = PromoVersion[p]]
      BY <2>8 DEF Slot!Approve
    <3>2. slot'[a] = slot[a] \/ slot'[a] = PromoVersion[p]
      BY <2>1, <3>1
    <3> QED
      BY <2>5, <3>2, LockOfType
  <2> QED
    BY <2>6, <2>7, <2>8
<1> QED
  BY <1>1, <1>2, ReviewWriters

\* The two ways to say what a recommended version may rely on are one: the
\* reviews implement the abstract slot exactly when supersession is the only way
\* out of recommended, which is what docs/evaluation-and-promotion.md promises.
THEOREM SlotIsThePromise ==
    ReviewSpec => (ImplementsSlot <=> RecommendedLeavesOnlyBySupersession)
<1>1. SlotInv /\ [ReviewNext]_allVars /\ [SupersededOnly]_allVars
         => [Slot!SlotNext]_(Slot!slotVars)
  BY ReviewStepIsSlotStep
     DEF SupersededOnly, LeavesRecommended, allVars, vars, pipelineVars
<1>2. SlotInv /\ [ReviewNext]_allVars /\ [Slot!SlotNext]_(Slot!slotVars)
         => [SupersededOnly]_allVars
  BY SlotStepSupersedes DEF SupersededOnly
<1>3. [\A v \in Version :
         stage[v] = "RECOMMENDED" /\ stage'[v] # "RECOMMENDED"
            => /\ stage'[v] = "DEPRECATED"
               /\ \E w \in Version \ {v} :
                     /\ VersionAgent[w] = VersionAgent[v]
                     /\ stage'[w] = "RECOMMENDED"]_allVars
         <=> [SupersededOnly]_allVars
  BY DEF SupersededOnly, LeavesRecommended, Superseded
<1> QED
  BY <1>1, <1>2, <1>3, ReviewInitIsSlotInit, SlotInvariance, PTL
     DEF ReviewSpec, ImplementsSlot, Slot!SlotSpec,
         RecommendedLeavesOnlyBySupersession

\* What would be enough for it: no version is recommended while a run of its own
\* may still write its stage.
NoLateRun == \A v \in Version : stage[v] = "RECOMMENDED" => ~LateRun(v)

\* Wherever no verdict comes late, the recommended version of an agent changes
\* only by an approval of a pending request for another version.
THEOREM SlotKeptWithoutLateRuns == ReviewSpec /\ []NoLateRun => ImplementsSlot
<1>1. SlotInv /\ [ReviewNext]_allVars /\ NoLateRun
         => [Slot!SlotNext]_(Slot!slotVars)
  <2> SUFFICES ASSUME SlotInv, [ReviewNext]_allVars, NoLateRun
               PROVE  SupersededOnly
    BY ReviewStepIsSlotStep
  <2> QED
    BY WayOutStep DEF SupersededOnly, NoLateRun, LeavesRecommended
<1> QED
  BY <1>1, ReviewInitIsSlotInit, SlotInvariance, PTL
     DEF ReviewSpec, ImplementsSlot, Slot!SlotSpec

\* No version is evaluated twice.
EvaluatedOnce == \A r, q \in Run : RunVersion[r] = RunVersion[q] => r = q

\* A version past evaluation has used its one run up.
LEMMA OneRunIsNotLate ==
    ASSUME EvaluatedOnce, PipelineInv PROVE NoLateRun
<1> SUFFICES ASSUME NEW v \in Version, stage[v] = "RECOMMENDED", NEW r \in RunsOf(v)
             PROVE  /\ handler[r].pc # "reading"
                    /\ \A w \in Worker : worker[w].run # r
  BY DEF NoLateRun, LateRun
<1>1. r \in PassingRuns(v)
  <2>1. PICK q \in PassingRuns(v) : TRUE
    BY DEF PipelineInv, EvaluatedHasPassingRun
  <2> QED
    BY <2>1 DEF EvaluatedOnce, PassingRuns, RunsOf
<1>2. r \in Run /\ run[r].status = "COMPLETED"
  BY <1>1 DEF PassingRuns, RunsOf, PipelineInv, GatesOnlyWhenCompleted
<1>3. handler[r].pc # "reading"
  BY <1>2 DEF PipelineInv, HandlerOwnsAbsentRun
<1>4. ASSUME NEW w \in Worker, worker[w].run = r PROVE FALSE
  BY <1>2, <1>4, PipelineAssumption
     DEF PipelineInv, IdleWorkerHasNoRun, WorkerHoldsDispatchedRun
<1> QED
  BY <1>3, <1>4

\* Where no version is evaluated twice, the reviews keep the promise of
\* RecommendedSlot, for any number of agents, versions, requests and decisions.
THEOREM SlotKeptWhenEvaluatedOnce == EvaluatedOnce => (ReviewSpec => ImplementsSlot)
<1>1. SUFFICES ASSUME EvaluatedOnce PROVE ReviewSpec => ImplementsSlot
  OBVIOUS
<1>2. ReviewInv => NoLateRun
  BY <1>1, OneRunIsNotLate DEF ReviewInv
<1> QED
  BY <1>2, ReviewInvariance, SlotKeptWithoutLateRuns, PTL

\* There, an agent that has a recommended version always has one.
THEOREM SlotNeverEmpties ==
    EvaluatedOnce =>
        \A a \in Agent :
            ReviewSpec => [](Recommended(a) # {} => [](Recommended(a) # {}))
<1>1. SUFFICES ASSUME EvaluatedOnce, NEW a \in Agent
               PROVE  ReviewSpec => [](Recommended(a) # {} => [](Recommended(a) # {}))
  OBVIOUS
<1>2. SlotInv /\ [ReviewNext]_allVars /\ Recommended(a) # {} => (Recommended(a) # {})'
  <2> SUFFICES ASSUME SlotInv, [ReviewNext]_allVars, NEW v \in Recommended(a)
               PROVE  (Recommended(a) # {})'
    OBVIOUS
  <2>1. v \in Version /\ VersionAgent[v] = a /\ stage[v] = "RECOMMENDED"
    BY DEF Recommended
  <2>2. ~LateRun(v)
    BY <1>1, <2>1, OneRunIsNotLate DEF SlotInv, ReviewInv, NoLateRun
  <2>3. stage'[v] = "RECOMMENDED" \/ Superseded(v)
    BY <2>1, <2>2, WayOutStep DEF LeavesRecommended
  <2> QED
    BY <2>1, <2>3 DEF Superseded, Recommended
<1> QED
  BY <1>2, SlotInvariance, PTL DEF ReviewSpec

-----------------------------------------------------------------------------
(* The lifecycle of a version *)

Requested(r) == run[r].status = "absent" /\ run'[r].status = "REQUESTED"

Settles(r) ==
    run[r].status = "DISPATCHED" /\ run'[r].status \in {"COMPLETED", "FAILED"}

Approved(p) == promo[p].status = "PENDING" /\ promo'[p].status = "APPROVED"

\* What stands behind a change of the stage of a version.
MoveIsExplained(v) ==
    \/ stage'[v] = "EVALUATING" /\ \E r \in RunsOf(v) : Requested(r)
    \/ /\ stage'[v] \in {"EVALUATED", "DRAFT"}
       /\ \E r \in RunsOf(v) :
             Settles(r) /\ (stage'[v] = "EVALUATED" <=> run'[r].gates = "passed")
    \/ /\ stage'[v] = "RECOMMENDED"
       /\ \E p \in Promo : PromoVersion[p] = v /\ Approved(p)
    \/ Superseded(v) /\ WasApproved(v)

\* The stages an approval writes: that of its version, and those of the versions
\* it found recommended, which are of the same agent.
LEMMA ApprovalWrites ==
    ASSUME SlotInv, NEW c \in Call, CommitApproval(c),
           NEW v \in Version, stage'[v] # stage[v]
    PROVE  LET p == call[c].promo IN
           \/ /\ v = PromoVersion[p] /\ p \in Promo /\ Approved(p)
              /\ stage'[v] = "RECOMMENDED"
           \/ v \in call[c].prod /\ Superseded(v)
<1>0. PICK p, w : p = call[c].promo /\ w = PromoVersion[p]
  OBVIOUS
<1>1. /\ p \in Promo /\ w \in Version
      /\ promo[p].status = "PENDING"
      /\ Recommended(LockOf(p))' = {w}
  BY <1>0, ApprovalMovesSlot
<1>2. Approved(p)
  <2>1. promo[p] \in PromotionRequest
    BY <1>1 DEF SlotInv, ReviewInv, ReviewTypeOK
  <2>2. promo'[p] = [promo[p] EXCEPT !.status = "APPROVED"]
    BY <1>0, <1>1 DEF CommitApproval, SlotInv, ReviewInv, ReviewTypeOK
  <2> QED
    BY <1>1, <2>1, <2>2 DEF Approved, PromotionRequest
<1>3. /\ v = w => stage'[v] = "RECOMMENDED"
      /\ v # w => v \in call[c].prod /\ stage'[v] = "DEPRECATED"
  BY <1>0 DEF CommitApproval
<1>4. v \in call[c].prod => VersionAgent[v] = LockOf(p)
  BY <1>0 DEF SlotInv, ProdIsOfAgent
<1>5. stage'[w] = "RECOMMENDED"
  BY <1>1 DEF Recommended
<1>6. v # w => Superseded(v)
  BY <1>0, <1>1, <1>3, <1>4, <1>5 DEF Superseded, LockOf
<1> QED
  BY <1>0, <1>1, <1>2, <1>3, <1>6

\* A step of the pipeline moves a version by a request or a verdict of its own.
LEMMA PipelineMoves ==
    ASSUME PipelineInv, [PipelineNext]_vars, NEW v \in Version, stage'[v] # stage[v]
    PROVE  \E r \in RunsOf(v) :
              \/ /\ handler[r].pc = "reading" /\ Requested(r)
                 /\ stage'[v] = "EVALUATING"
              \/ /\ Settles(r)
                 /\ stage'[v] \in {"EVALUATED", "DRAFT"}
                 /\ stage'[v] = "EVALUATED" <=> run'[r].gates = "passed"
<1> DEFINE Moved(r) ==
        \/ /\ handler[r].pc = "reading" /\ Requested(r)
           /\ stage'[v] = "EVALUATING"
        \/ /\ Settles(r)
           /\ stage'[v] \in {"EVALUATED", "DRAFT"}
           /\ stage'[v] = "EVALUATED" <=> run'[r].gates = "passed"
<1> USE DEF PipelineInv, PipelineTypeOK, RunReference, WorkerHoldsDispatchedRun,
            GatesOnlyWhenCompleted, HandlerOwnsAbsentRun, RunsOf, Requested, Settles
<1>1. ASSUME NEW r \in Run, CommitRequest(r) PROVE \E q \in RunsOf(v) : Moved(q)
  <2>1. r \in RunsOf(v) /\ Moved(r)
    BY <1>1 DEF CommitRequest, AbsentRun
  <2> QED
    BY <2>1
<1>2. ASSUME NEW w \in Worker, NEW r \in Run, ClaimJob(w, r) PROVE FALSE
  BY <1>2 DEF ClaimJob, WorkerOn
<1>3. ASSUME NEW w \in Worker, MarkFailed(w) PROVE \E q \in RunsOf(v) : Moved(q)
  <2>1. worker[w].run \in RunsOf(v) /\ Moved(worker[w].run)
    BY <1>3 DEF MarkFailed
  <2> QED
    BY <2>1
<1>4. ASSUME NEW w \in Worker, PersistFails(w) PROVE FALSE
  BY <1>4 DEF PersistFails
<1>5. ASSUME NEW w \in Worker, NEW clean \in BOOLEAN, PersistSuccess(w, clean)
      PROVE  \E q \in RunsOf(v) : Moved(q)
  <2>1. worker[w].run \in RunsOf(v) /\ Moved(worker[w].run)
    BY <1>5 DEF PersistSuccess, Completed
  <2> QED
    BY <2>1
<1> QED
  BY <1>1, <1>2, <1>3, <1>4, <1>5, RunWriters

\* Every step explains the stages it moves.
LEMMA MoveStep ==
    ASSUME SlotInv, [ReviewNext]_allVars, NEW v \in Version, stage'[v] # stage[v]
    PROVE  MoveIsExplained(v)
<1>1. CASE [PipelineNext]_vars
  BY <1>1, PipelineMoves DEF MoveIsExplained, SlotInv, ReviewInv
<1>2. ASSUME NEW c \in Call, CommitApproval(c) PROVE MoveIsExplained(v)
  BY <1>2, ApprovalWrites DEF MoveIsExplained, SlotInv, ReviewInv, CallEvidence
<1> QED
  BY <1>1, <1>2, ReviewWriters

\* No stage is ever written without its cause, however the writers of the stage,
\* three of which write it blindly, interleave: evaluating takes a new run of the
\* version, evaluated and draft the verdict of one that was dispatched, with the
\* gates it had, recommended the approval of a pending request for it, deprecated
\* a successor and an earlier approval.
THEOREM StageMovesAreExplained ==
    ReviewSpec =>
        [][\A v \in Version : stage'[v] # stage[v] => MoveIsExplained(v)]_allVars
<1>1. SlotInv /\ [ReviewNext]_allVars
         => [\A v \in Version : stage'[v] # stage[v] => MoveIsExplained(v)]_allVars
  BY MoveStep
<1> QED
  BY <1>1, SlotInvariance, PTL DEF ReviewSpec

\* The transitions of the table of docs/evaluation-and-promotion.md.
LegalMoves ==
    { <<"DRAFT", "EVALUATING">>,
      <<"EVALUATING", "EVALUATED">>,
      <<"EVALUATING", "DRAFT">>,
      <<"EVALUATED", "RECOMMENDED">>,
      <<"RECOMMENDED", "DEPRECATED">>,
      <<"DEPRECATED", "RECOMMENDED">> }

\* The stage a writer relies on and does not read again.
RequestSawDraft ==
    \A r \in Run : handler[r].pc = "reading" => handler[r].saw # "EVALUATING"

InFlightIsEvaluating == \A r \in Run : InFlight(r) => stage[RunVersion[r]] = "EVALUATING"

ApprovedIsPromotable ==
    \A c \in Call :
        call[c].pc \in {"approving", "checked"} =>
           stage[PromoVersion[call[c].promo]] \in PromotableStages

ProdIsRecommended ==
    \A c \in Call : \A x \in call[c].prod : x \in Version /\ stage[x] = "RECOMMENDED"

OnceInv ==
    /\ RequestSawDraft
    /\ InFlightIsEvaluating
    /\ ApprovedIsPromotable
    /\ ProdIsRecommended

\* Where no version is evaluated twice, a version that passed has no run left to
\* move it.
LEMMA PassedIsQuiet ==
    ASSUME EvaluatedOnce, PipelineInv, NEW v \in Version, PassingRuns(v) # {}
    PROVE  /\ \A r \in RunsOf(v) : ~InFlight(r) /\ handler[r].pc # "reading"
           /\ [PipelineNext]_vars => stage'[v] = stage[v]
<1>1. ASSUME NEW r \in RunsOf(v) PROVE run[r].status = "COMPLETED"
  BY DEF EvaluatedOnce, PassingRuns, RunsOf, PipelineInv, GatesOnlyWhenCompleted
<1>2. \A r \in RunsOf(v) : ~InFlight(r) /\ handler[r].pc # "reading"
  BY <1>1 DEF InFlight, PipelineInv, HandlerOwnsAbsentRun, RunsOf
<1>3. ASSUME [PipelineNext]_vars, stage'[v] # stage[v] PROVE FALSE
  BY <1>1, <1>3, PipelineMoves DEF Requested, Settles
<1> QED
  BY <1>2, <1>3

\* There, a version whose run is about to be recorded is a draft.
LEMMA ReadingIsDraft ==
    ASSUME EvaluatedOnce, PipelineInv, NEW r \in Run, run[r].status = "absent"
    PROVE  stage[RunVersion[r]] = "DRAFT"
<1>1. RunVersion[r] \in Version /\ RunsOf(RunVersion[r]) = {r}
  BY PipelineAssumption DEF EvaluatedOnce, RunsOf
<1>2. PassingRuns(RunVersion[r]) = {}
  BY <1>1 DEF PassingRuns, PipelineInv, GatesOnlyWhenCompleted
<1>3. stage[RunVersion[r]] \notin {"EVALUATED", "RECOMMENDED", "DEPRECATED"}
  BY <1>1, <1>2 DEF PipelineInv, EvaluatedHasPassingRun
<1>4. stage[RunVersion[r]] # "EVALUATING"
  BY <1>1 DEF PipelineInv, EvaluatingIsExplained, InFlight
<1> QED
  BY <1>1, <1>3, <1>4 DEF PipelineInv, PipelineTypeOK, Stage

\* There, a handler under way saw a draft.
LEMMA RequestSawDraftStep ==
    ASSUME EvaluatedOnce, SlotInv, RequestSawDraft, [ReviewNext]_allVars
    PROVE  RequestSawDraft'
<1>0. PipelineInv /\ handler \in [Run -> Handler]
  BY DEF SlotInv, ReviewInv, PipelineInv, PipelineTypeOK
<1>1. ASSUME UNCHANGED handler PROVE RequestSawDraft'
  BY <1>1 DEF RequestSawDraft
<1>2. ASSUME NEW r \in Run, BeginRequest(r) PROVE RequestSawDraft'
  <2>1. stage[RunVersion[r]] = "DRAFT"
    BY <1>0, <1>2, ReadingIsDraft DEF BeginRequest, PipelineInv, HandlerOwnsAbsentRun
  <2> QED
    BY <1>0, <1>2, <2>1 DEF BeginRequest, RequestSawDraft
<1>3. ASSUME NEW r \in Run,
             \/ RefuseRequest(r) \/ CommitRequest(r)
             \/ DispatchJob(r) \/ LoseDispatch(r)
      PROVE  RequestSawDraft'
  <2>1. /\ handler'[r].pc # "reading"
        /\ \A q \in Run \ {r} : handler'[q] = handler[q]
    BY <1>0, <1>3
       DEF RefuseRequest, CommitRequest, DispatchJob, LoseDispatch, HandlerAt, Handler
  <2> QED
    BY <2>1 DEF RequestSawDraft
<1>4. CASE PipelineNext
  BY <1>1, <1>2, <1>3, <1>4
     DEF PipelineNext, HandlerStep, AcknowledgeTask, ClaimJob, WorkerStep,
         WorkerCrashes, MarkFailed, AgentEvalReturns, PersistSuccess,
         PersistFails, pipelineVars
<1> QED
  BY <1>1, <1>4, ReviewWriters DEF vars, pipelineVars

\* There, a stage is moved by the run of a version that has not passed, or by an
\* approval that holds the lock of the agent of a version that has.
LEMMA MovedByOwner ==
    ASSUME EvaluatedOnce, SlotInv, [ReviewNext]_allVars,
           NEW v \in Version, stage'[v] # stage[v]
    PROVE  \/ [PipelineNext]_vars /\ PassingRuns(v) = {}
           \/ \E c \in Call : /\ CommitApproval(c) /\ PassingRuns(v) # {}
                              /\ VersionAgent[v] = LockOf(call[c].promo)
<1>1. CASE [PipelineNext]_vars
  BY <1>1, PassedIsQuiet DEF SlotInv, ReviewInv
<1>2. ASSUME NEW c \in Call, CommitApproval(c)
      PROVE  PassingRuns(v) # {} /\ VersionAgent[v] = LockOf(call[c].promo)
  BY <1>2, ApprovalWrites
     DEF SlotInv, ReviewInv, CallEvidence, ProdIsOfAgent, CommitApproval, LockOf
<1> QED
  BY <1>1, <1>2, ReviewWriters

\* There, a version stays in evaluating while its run is in flight.
LEMMA InFlightStep ==
    ASSUME EvaluatedOnce, SlotInv, RequestSawDraft, InFlightIsEvaluating,
           [ReviewNext]_allVars
    PROVE  InFlightIsEvaluating'
<1> SUFFICES ASSUME NEW r \in Run, InFlight(r)'
             PROVE  stage'[RunVersion[r]] = "EVALUATING"
  BY DEF InFlightIsEvaluating
<1>0. /\ PipelineInv
      /\ stage \in [Version -> Stage]
      /\ run \in [Run -> RunReference]
  BY DEF SlotInv, ReviewInv, PipelineInv, PipelineTypeOK
<1>1. RunVersion[r] \in Version /\ RunsOf(RunVersion[r]) = {r}
  BY PipelineAssumption DEF EvaluatedOnce, RunsOf
<1>2. CASE InFlight(r)
  <2>1. stage[RunVersion[r]] = "EVALUATING" /\ PassingRuns(RunVersion[r]) = {}
    BY <1>0, <1>1, <1>2, PassedIsQuiet DEF InFlightIsEvaluating
  <2>2. ~Settles(r)
    BY DEF Settles, InFlight
  <2> QED
    BY <1>0, <1>1, <2>1, <2>2, MovedByOwner, PipelineMoves
<1>3. CASE ~InFlight(r)
  <2>1. [PipelineNext]_vars /\ run'[r] # run[r]
    BY <1>3, ReviewWriters DEF InFlight
  <2>2. ASSUME NEW w \in Worker, NEW q \in Run, ClaimJob(w, q) PROVE FALSE
    BY <1>0, <1>3, <2>2 DEF ClaimJob, InFlight
  <2>3. ASSUME NEW w \in Worker, MarkFailed(w) \/ PersistFails(w) PROVE FALSE
    BY <1>0, <1>3, <2>3
       DEF MarkFailed, PersistFails, FailedWithResult, InFlight, RunReference
  <2>4. ASSUME NEW w \in Worker, NEW clean \in BOOLEAN, PersistSuccess(w, clean)
        PROVE  FALSE
    BY <1>0, <1>3, <2>4 DEF PersistSuccess, Completed, InFlight
  <2>5. ASSUME NEW q \in Run, CommitRequest(q)
        PROVE  stage'[RunVersion[r]] = "EVALUATING"
    <3>1. q = r
      BY <1>0, <2>1, <2>5 DEF CommitRequest
    <3> QED
      BY <1>0, <1>1, <2>5, <3>1 DEF CommitRequest, RequestSawDraft
  <2> QED
    BY <2>1, <2>2, <2>3, <2>4, <2>5, RunWriters
<1> QED
  BY <1>2, <1>3

\* What becomes of a call in a step.
LEMMA CallChanges ==
    ASSUME ReviewInv, [ReviewNext]_allVars, NEW d \in Call, call'[d] # call[d]
    PROVE  \/ call'[d] = IdleCall
           \/ \E p \in Promo : BeginApproval(d, p) \/ BeginRejection(d, p)
           \/ CheckApproval(d)
<1>0. call \in [Call -> CallState]
  BY DEF ReviewInv, ReviewTypeOK
<1>1. ASSUME NEW c \in Call, NEW p \in Promo, BeginApproval(c, p) \/ BeginRejection(c, p)
      PROVE  c = d
  BY <1>0, <1>1 DEF BeginApproval, BeginRejection
<1>2. ASSUME NEW c \in Call, CheckApproval(c) PROVE c = d
  BY <1>0, <1>2 DEF CheckApproval
<1>3. ASSUME NEW c \in Call, CommitApproval(c) \/ CommitRejection(c) \/ AbandonCall(c)
      PROVE  call'[d] = IdleCall
  BY <1>0, <1>3 DEF CommitApproval, CommitRejection, AbandonCall
<1> QED
  BY <1>1, <1>2, <1>3
     DEF ReviewNext, ReviewStep, CallStep, allVars, reviewVars, BeginFiling,
         CommitFiling, RefuseFiling

\* There, what an approval read of the stages still holds when it commits.
LEMMA ApprovalReadsHold ==
    ASSUME EvaluatedOnce, SlotInv, ApprovedIsPromotable, ProdIsRecommended,
           [ReviewNext]_allVars
    PROVE  ApprovedIsPromotable' /\ ProdIsRecommended'
<1>0. ReviewInv /\ call \in [Call -> CallState]
  BY DEF SlotInv, ReviewInv, ReviewTypeOK
<1> SUFFICES ASSUME NEW d \in Call
             PROVE  /\ call'[d].pc \in {"approving", "checked"} =>
                          stage'[PromoVersion[call'[d].promo]] \in PromotableStages
                    /\ \A x \in call'[d].prod : x \in Version /\ stage'[x] = "RECOMMENDED"
  BY DEF ApprovedIsPromotable, ProdIsRecommended
<1>1. CASE call'[d] = IdleCall
  BY <1>1 DEF IdleCall
<1>2. ASSUME NEW p \in Promo, BeginApproval(d, p) \/ BeginRejection(d, p)
      PROVE  /\ stage' = stage /\ call'[d].prod = {} /\ call'[d].promo = p
             /\ call'[d].pc = "approving" => stage[PromoVersion[p]] \in PromotableStages
             /\ call'[d].pc \in {"approving", "rejecting"}
  BY <1>0, <1>2 DEF BeginApproval, BeginRejection, vars, pipelineVars
<1>3. ASSUME CheckApproval(d)
      PROVE  /\ stage' = stage /\ call[d].pc = "approving"
             /\ call'[d].promo = call[d].promo
             /\ call'[d].prod = Recommended(LockOf(call[d].promo))
  BY <1>0, <1>3 DEF CheckApproval, vars, pipelineVars
<1>4. CASE call'[d] = call[d] /\ call[d].pc # "idle"
  <2>1. ASSUME NEW x \in Version, PassingRuns(x) # {},
               VersionAgent[x] = LockOf(call[d].promo)
        PROVE  stage'[x] = stage[x]
    <3> SUFFICES ASSUME NEW c \in Call, CommitApproval(c),
                        VersionAgent[x] = LockOf(call[c].promo)
                 PROVE  FALSE
      BY <2>1, MovedByOwner
    <3>1. OnlyCallEnds(c)
      BY <1>0, EndedCall DEF CommitApproval
    <3>2. call'[c].pc = "idle"
      BY <1>0 DEF CommitApproval, IdleCall
    <3> QED
      BY <1>4, <2>1, <3>1, <3>2 DEF OnlyCallEnds
  <2>2. call[d].promo \in Promo /\ PromoVersion[call[d].promo] \in Version
    BY <1>0, <1>4, ActiveCallType, LockOfType
  <2>3. call[d].pc \in {"approving", "checked"} =>
           stage'[PromoVersion[call[d].promo]] = stage[PromoVersion[call[d].promo]]
    BY <1>0, <2>1, <2>2 DEF ReviewInv, CallEvidence, LockOf
  <2>4. \A x \in call[d].prod : stage'[x] = stage[x]
    BY <1>0, <2>1 DEF ReviewInv, CallEvidence, SlotInv, ProdIsOfAgent, ProdIsRecommended
  <2> QED
    BY <1>4, <2>3, <2>4 DEF ApprovedIsPromotable, ProdIsRecommended
<1>5. CASE call'[d] = call[d] /\ call[d].pc = "idle"
  BY <1>0, <1>5 DEF CallState, IdleCall
<1>6. CASE CheckApproval(d)
  BY <1>3, <1>6 DEF ApprovedIsPromotable, Recommended
<1>7. CASE \E p \in Promo : BeginApproval(d, p) \/ BeginRejection(d, p)
  BY <1>2, <1>7
<1> QED
  BY <1>0, <1>1, <1>4, <1>5, <1>6, <1>7, CallChanges

\* Where no version is evaluated twice, every step is one of the table.
LEMMA TableStep ==
    ASSUME EvaluatedOnce, SlotInv, OnceInv, [ReviewNext]_allVars,
           NEW v \in Version, stage'[v] # stage[v]
    PROVE  <<stage[v], stage'[v]>> \in LegalMoves
<1>0. PipelineInv
  BY DEF SlotInv, ReviewInv
<1>1. CASE [PipelineNext]_vars
  <2>1. PICK r \in RunsOf(v) :
           \/ Requested(r) /\ stage'[v] = "EVALUATING"
           \/ Settles(r) /\ stage'[v] \in {"EVALUATED", "DRAFT"}
    BY <1>0, <1>1, PipelineMoves
  <2>2. r \in Run /\ RunVersion[r] = v
    BY DEF RunsOf
  <2>3. Requested(r) => stage[v] = "DRAFT"
    BY <1>0, <2>2, ReadingIsDraft DEF Requested
  <2>4. Settles(r) => stage[v] = "EVALUATING"
    BY <2>2 DEF OnceInv, InFlightIsEvaluating, InFlight, Settles
  <2> QED
    BY <2>1, <2>3, <2>4 DEF LegalMoves
<1>2. ASSUME NEW c \in Call, CommitApproval(c)
      PROVE  <<stage[v], stage'[v]>> \in LegalMoves
  <2>1. CASE v = PromoVersion[call[c].promo] /\ stage'[v] = "RECOMMENDED"
    BY <1>2, <2>1 DEF OnceInv, ApprovedIsPromotable, CommitApproval, LegalMoves
  <2>2. CASE v \in call[c].prod /\ Superseded(v)
    BY <2>2 DEF OnceInv, ProdIsRecommended, Superseded, LegalMoves
  <2> QED
    BY <1>2, <2>1, <2>2, ApprovalWrites
<1> QED
  BY <1>1, <1>2, ReviewWriters

\* Where no version is evaluated twice, the lifecycle is the documented one: no
\* other transition is ever taken, although neither the commit of a request, nor
\* the verdict of a worker, nor the commit of an approval reads the stage it
\* overwrites.
THEOREM LifecycleIsTheTable ==
    EvaluatedOnce =>
        (ReviewSpec =>
           [][\A v \in Version :
                stage'[v] # stage[v] => <<stage[v], stage'[v]>> \in LegalMoves]_allVars)
<1>1. SUFFICES ASSUME EvaluatedOnce
               PROVE  ReviewSpec =>
                        [][\A v \in Version :
                             stage'[v] # stage[v] =>
                                <<stage[v], stage'[v]>> \in LegalMoves]_allVars
  OBVIOUS
<1>2. ReviewInit => OnceInv
  BY DEF ReviewInit, PipelineInit, OnceInv, RequestSawDraft, InFlightIsEvaluating,
         InFlight, ApprovedIsPromotable, ProdIsRecommended, HandlerAt, AbsentRun, IdleCall
<1>3. SlotInv /\ OnceInv /\ [ReviewNext]_allVars => OnceInv'
  BY <1>1, RequestSawDraftStep, InFlightStep, ApprovalReadsHold DEF OnceInv
<1>4. SlotInv /\ OnceInv /\ [ReviewNext]_allVars
         => [\A v \in Version :
               stage'[v] # stage[v] => <<stage[v], stage'[v]>> \in LegalMoves]_allVars
  BY <1>1, TableStep
<1> QED
  BY <1>2, <1>3, <1>4, SlotInvariance, PTL DEF ReviewSpec

-----------------------------------------------------------------------------
(* Decisions are final and announced *)

Decided(p) == promo[p].status \in {"APPROVED", "REJECTED"}

\* No step takes back a decision, its record or its event.
LEMMA FinalStep ==
    ASSUME ReviewInv, [ReviewNext]_allVars
    PROVE  /\ \A p \in Promo : Decided(p) => promo'[p] = promo[p]
           /\ decisions \subseteq decisions'
           /\ outbox \subseteq outbox'
<1> DEFINE Final == /\ \A p \in Promo : Decided(p) => promo'[p] = promo[p]
                    /\ decisions \subseteq decisions'
                    /\ outbox \subseteq outbox'
<1> USE DEF Decided
<1>0. promo \in [Promo -> PromotionRequest]
  BY DEF ReviewInv, ReviewTypeOK
<1>1. CASE UNCHANGED <<promo, decisions, outbox>>
  BY <1>1
<1>2. ASSUME NEW q \in Promo, CommitFiling(q) PROVE Final
  BY <1>0, <1>2 DEF CommitFiling, ReviewInv, FilingInv
<1>3. ASSUME NEW c \in Call, CommitApproval(c) PROVE Final
  BY <1>0, <1>3 DEF CommitApproval, ReviewInv, CallHoldsLock
<1>4. ASSUME NEW c \in Call, CommitRejection(c) PROVE Final
  BY <1>0, <1>4 DEF CommitRejection, ReviewInv, CallHoldsLock
<1> QED
  BY <1>1, <1>2, <1>3, <1>4
     DEF ReviewNext, ReviewStep, CallStep, allVars, reviewVars, BeginFiling,
         RefuseFiling, BeginApproval, BeginRejection, CheckApproval, AbandonCall

\* A decided request is never decided again, reopened or edited, and neither its
\* decision nor its event is taken back, whatever other calls were under way when
\* it was decided.
THEOREM DecisionsAreFinal ==
    ReviewSpec => [][/\ \A p \in Promo : Decided(p) => promo'[p] = promo[p]
                     /\ decisions \subseteq decisions'
                     /\ outbox \subseteq outbox']_allVars
<1>1. ReviewInv /\ [ReviewNext]_allVars
         => [/\ \A p \in Promo : Decided(p) => promo'[p] = promo[p]
             /\ decisions \subseteq decisions'
             /\ outbox \subseteq outbox']_allVars
  BY FinalStep
<1> QED
  BY <1>1, ReviewInvariance, PTL DEF ReviewSpec

\* The events are those of the approved requests.
OutboxIsOfApproved == outbox = {p \in Promo : promo[p].status = "APPROVED"}

\* Every step keeps the events and the approvals together.
LEMMA OutboxStep ==
    ASSUME ReviewInv, OutboxIsOfApproved, [ReviewNext]_allVars
    PROVE  OutboxIsOfApproved'
<1> USE DEF OutboxIsOfApproved
<1>0. promo \in [Promo -> PromotionRequest]
  BY DEF ReviewInv, ReviewTypeOK
<1>1. CASE UNCHANGED <<promo, outbox>>
  BY <1>1
<1>2. ASSUME NEW q \in Promo, CommitFiling(q) PROVE OutboxIsOfApproved'
  BY <1>0, <1>2 DEF CommitFiling, ReviewInv, FilingInv
<1>3. ASSUME NEW c \in Call, CommitApproval(c) \/ CommitRejection(c)
      PROVE  OutboxIsOfApproved'
  <2>1. PICK p \in Promo : p = call[c].promo /\ promo[p].status = "PENDING"
    BY <1>3, ActiveCallType
       DEF CommitApproval, CommitRejection, ReviewInv, CallHoldsLock, ReviewTypeOK
  <2>2. \A s : [promo EXCEPT ![p].status = s][p].status = s
    BY <1>0, <2>1 DEF PromotionRequest
  <2>3. CASE CommitApproval(c)
    BY <1>0, <2>1, <2>2, <2>3 DEF CommitApproval
  <2>4. CASE CommitRejection(c)
    BY <1>0, <2>1, <2>2, <2>4 DEF CommitRejection
  <2> QED
    BY <1>3, <2>3, <2>4
<1> QED
  BY <1>1, <1>2, <1>3
     DEF ReviewNext, ReviewStep, CallStep, allVars, reviewVars, BeginFiling,
         RefuseFiling, BeginApproval, BeginRejection, CheckApproval, AbandonCall

\* Nothing is recommended in silence: behind every recommended version stand an
\* approved request for it, the decision and the event the outbox delivers, and
\* no event is there without them (the one commit of approve_promotion).
THEOREM RecommendationIsAnnounced ==
    ReviewSpec =>
        [](/\ OutboxIsOfApproved
           /\ \A v \in Version : stage[v] = "RECOMMENDED" =>
                 \E p \in outbox, d \in decisions :
                    PromoVersion[p] = v /\ d.promo = p /\ d.verdict = "APPROVE")
<1> DEFINE Announced ==
        \A v \in Version : stage[v] = "RECOMMENDED" =>
           \E p \in outbox, d \in decisions :
              PromoVersion[p] = v /\ d.promo = p /\ d.verdict = "APPROVE"
<1>1. ReviewInit => OutboxIsOfApproved
  BY DEF ReviewInit, OutboxIsOfApproved, AbsentPromo
<1>2. ReviewInv /\ OutboxIsOfApproved /\ [ReviewNext]_allVars => OutboxIsOfApproved'
  BY OutboxStep
<1>3. ReviewInv /\ OutboxIsOfApproved => Announced
  <2> SUFFICES ASSUME ReviewInv, OutboxIsOfApproved,
                      NEW v \in Version, stage[v] = "RECOMMENDED"
               PROVE  \E p \in outbox, d \in decisions :
                         PromoVersion[p] = v /\ d.promo = p /\ d.verdict = "APPROVE"
    OBVIOUS
  <2>1. PICK p \in Promo : PromoVersion[p] = v /\ promo[p].status = "APPROVED"
    BY DEF ReviewInv, PromotedWasApproved, WasApproved
  <2>2. PICK d \in decisions : d.promo = p /\ d.verdict = "APPROVE"
    BY <2>1 DEF ReviewInv, DecidedOnce
  <2> QED
    BY <2>1, <2>2 DEF OutboxIsOfApproved
<1> QED
  BY <1>1, <1>2, <1>3, ReviewInvariance, PTL DEF ReviewSpec

-----------------------------------------------------------------------------
(* The policy an approval rests on *)

\* Nothing is pinned to a policy that is not published yet.
PolicyNotAhead ==
    \A r \in Run : run[r].policy <= policy /\ handler[r].policy <= policy

DecidedOnPassingRun ==
    \A d \in decisions : d.run \in PassingRuns(PromoVersion[d.promo])

\* The run under policy x is not behind the approvals the agent has had.
NotBehind(a, x) ==
    \A d \in decisions : Approval(d) /\ LockOf(d.promo) = a => run[d.run].policy <= x

ApprovalNotBehind ==
    \A c \in Call :
        call[c].pc \in {"approving", "checked"} =>
           NotBehind(LockOf(call[c].promo), run[call[c].run].policy)

PolicyInv ==
    ReviewInv /\ PolicyNotAhead /\ DecidedOnPassingRun /\ ApprovalNotBehind

\* The pipeline pins the policy that is current, and policies only grow.
LEMMA PipelinePinsPolicy ==
    ASSUME PipelineInv, PolicyNotAhead, [PipelineNext]_vars
    PROVE  PolicyNotAhead'
<1> USE DEF PipelineInv, PipelineTypeOK, EvidenceTypeOK, PolicyNotAhead, Policy,
            RunReference, Handler
<1>1. policy \in Nat /\ policy' \in Nat /\ policy <= policy'
  <2>1. EvidenceTypeOK'
    BY StepType
  <2>2. UNCHANGED policy \/ EvidenceNext
    BY DEF PipelineNext, HandlerStep, WorkerStep, BeginRequest, RefuseRequest,
           CommitRequest, DispatchJob, LoseDispatch, AcknowledgeTask, ClaimJob,
           MarkFailed, AgentEvalReturns, PersistSuccess, PersistFails,
           WorkerCrashes, evidenceVars, vars
  <2> QED
    BY <2>1, <2>2, EvidenceAssumption
       DEF EvidenceNext, GrantCapability, RevokeCapability,
           CreateEvaluationPolicy, EvaluatorVersionChanges, DatasetChanges
<1>2. ASSUME NEW r \in Run
      PROVE  run'[r].policy \in {run[r].policy, handler[r].policy}
  <2>1. ASSUME NEW q \in Run, CommitRequest(q)
        PROVE  run'[r].policy \in {run[r].policy, handler[r].policy}
    BY <2>1 DEF CommitRequest
  <2>2. ASSUME NEW w \in Worker, NEW q \in Run, ClaimJob(w, q)
        PROVE  run'[r].policy = run[r].policy
    BY <2>2 DEF ClaimJob
  <2>3. ASSUME NEW w \in Worker, MarkFailed(w) \/ PersistFails(w)
        PROVE  run'[r].policy = run[r].policy
    BY <2>3 DEF MarkFailed, PersistFails, FailedWithResult
  <2>4. ASSUME NEW w \in Worker, NEW clean \in BOOLEAN, PersistSuccess(w, clean)
        PROVE  run'[r].policy = run[r].policy
    BY <2>4 DEF PersistSuccess, Completed
  <2> QED
    BY <2>1, <2>2, <2>3, <2>4, RunWriters
<1>3. ASSUME NEW r \in Run
      PROVE  handler'[r].policy \in {handler[r].policy, policy, 1}
  <2>1. ASSUME NEW q \in Run, HandlerStep(q)
        PROVE  handler'[r].policy \in {handler[r].policy, policy, 1}
    BY <2>1 DEF HandlerStep, BeginRequest, RefuseRequest, CommitRequest,
                DispatchJob, LoseDispatch, HandlerAt
  <2>2. UNCHANGED handler \/ \E q \in Run : HandlerStep(q)
    BY DEF PipelineNext, WorkerStep, AcknowledgeTask, ClaimJob, MarkFailed,
           AgentEvalReturns, PersistSuccess, PersistFails, WorkerCrashes,
           pipelineVars, vars
  <2> QED
    BY <2>1, <2>2
<1>4. 1 <= policy
  OBVIOUS
<1> QED
  <2> SUFFICES ASSUME NEW r \in Run
               PROVE  run'[r].policy <= policy' /\ handler'[r].policy <= policy'
    OBVIOUS
  <2>1. run[r].policy \in Nat /\ handler[r].policy \in Nat
    OBVIOUS
  <2> QED
    BY <1>1, <1>2, <1>3, <1>4, <2>1

\* So does a step of the reviews.
LEMMA ReviewPinsPolicy ==
    ASSUME PolicyInv, [ReviewNext]_allVars
    PROVE  PolicyNotAhead'
<1>1. CASE [PipelineNext]_vars
  BY <1>1, PipelinePinsPolicy DEF PolicyInv, ReviewInv
<1>2. CASE \E c \in Call : CommitApproval(c)
  BY <1>2 DEF CommitApproval, evidenceVars, PolicyInv, PolicyNotAhead
<1> QED
  BY <1>1, <1>2, ReviewWriters

\* A passing run goes on passing under the policy it is pinned to.
LEMMA PassingRunKeepsPolicy ==
    ASSUME ReviewInv, [ReviewNext]_allVars, NEW v, NEW r \in PassingRuns(v)
    PROVE  r \in Run /\ r \in PassingRuns(v)' /\ run'[r].policy = run[r].policy
<1>1. r \in Run
  BY DEF PassingRuns, RunsOf
<1>2. CASE [PipelineNext]_vars
  <2>1. run[r].status # "absent"
    BY <1>1 DEF PassingRuns, ReviewInv, PipelineInv, GatesOnlyWhenCompleted
  <2> QED
    BY <1>1, <1>2, <2>1, PinnedStep, PipelineKeepsPassing DEF ReviewInv, RecordKept
<1>3. CASE UNCHANGED run
  BY <1>1, <1>3 DEF PassingRuns, RunsOf
<1> QED
  BY <1>2, <1>3, ReviewWriters

\* A decision that is added is that of a call that ends; it cites the run the call
\* read when it took the lock, and no step of the pipeline is taken with it.
LEMMA NewDecision ==
    ASSUME ReviewInv, [ReviewNext]_allVars, NEW e \in decisions' \ decisions
    PROVE  \E c \in Call : /\ call[c].pc # "idle"
                           /\ call'[c].pc = "idle"
                           /\ e.promo = call[c].promo
                           /\ e.run = call[c].run
                           /\ Approval(e) => call[c].pc = "checked"
                           /\ UNCHANGED run
<1> USE DEF ReviewInv, ReviewTypeOK
<1>1. PICK c \in Call : CommitApproval(c) \/ CommitRejection(c)
  BY DEF ReviewNext, ReviewStep, CallStep, allVars, reviewVars, BeginFiling,
         CommitFiling, RefuseFiling, BeginApproval, BeginRejection,
         CheckApproval, AbandonCall
<1>2. call'[c].pc = "idle"
  BY <1>1 DEF CommitApproval, CommitRejection, IdleCall
<1>3. CASE CommitApproval(c)
  BY <1>2, <1>3 DEF CommitApproval
<1>4. CASE CommitRejection(c)
  BY <1>2, <1>4 DEF CommitRejection, Approval, vars, pipelineVars
<1> QED
  BY <1>1, <1>3, <1>4

\* A call under way on an approval had begun before the step, or begins in it on
\* a run under the current policy.
LEMMA ApprovalUnderWay ==
    ASSUME ReviewInv, [ReviewNext]_allVars, NEW c \in Call,
           call'[c].pc \in {"approving", "checked"}
    PROVE  \/ /\ call[c].pc \in {"approving", "checked"}
              /\ call'[c].promo = call[c].promo /\ call'[c].run = call[c].run
           \/ /\ run[call'[c].run].policy = policy
              /\ call'[c].run \in PassingRuns(PromoVersion[call'[c].promo])
              /\ UNCHANGED <<vars, decisions>>
<1>0. call \in [Call -> CallState]
  BY DEF ReviewInv, ReviewTypeOK
<1>1. CASE \E p \in Promo : BeginApproval(c, p)
  <2>1. PICK p \in Promo : BeginApproval(c, p)
    BY <1>1
  <2>2. PICK r \in LatestPassing(PromoVersion[p]) :
           /\ PolicyIsCurrent(r)
           /\ call' = [call EXCEPT ![c] = [pc |-> "approving", promo |-> p,
                                           run |-> r, prod |-> {}]]
    BY <2>1 DEF BeginApproval
  <2>3. call'[c].run = r /\ call'[c].promo = p
    BY <1>0, <2>2
  <2> QED
    BY <2>1, <2>2, <2>3, LatestPassingType DEF BeginApproval, PolicyIsCurrent
<1>2. CASE \E p \in Promo : BeginRejection(c, p)
  BY <1>0, <1>2 DEF BeginRejection
<1>3. CASE CheckApproval(c)
  BY <1>0, <1>3 DEF CheckApproval
<1>4. CASE call'[c] = call[c] \/ call'[c] = IdleCall
  BY <1>4 DEF IdleCall
<1> QED
  BY <1>1, <1>2, <1>3, <1>4, CallChanges

\* Every step keeps the approvals of an agent in the order of their policies: the
\* lock keeps others out between the check of the policy and the commit.
LEMMA PolicyStep == PolicyInv /\ [ReviewNext]_allVars => PolicyInv'
<1> SUFFICES ASSUME PolicyInv, [ReviewNext]_allVars PROVE PolicyInv'
  OBVIOUS
<1>0. ReviewInv
  BY DEF PolicyInv
<1>1. DecidedOnPassingRun'
  <2> SUFFICES ASSUME NEW d \in decisions'
               PROVE  d.run \in PassingRuns(PromoVersion[d.promo])'
    BY DEF DecidedOnPassingRun
  <2>1. d.run \in PassingRuns(PromoVersion[d.promo])
    <3>1. CASE d \in decisions
      BY <3>1 DEF PolicyInv, DecidedOnPassingRun
    <3>2. CASE d \notin decisions
      <4>1. PICK c \in Call : /\ call[c].pc # "idle"
                              /\ d.promo = call[c].promo /\ d.run = call[c].run
        BY <1>0, <3>2, NewDecision
      <4> QED
        BY <1>0, <4>1 DEF ReviewInv, CallEvidence
    <3> QED
      BY <3>1, <3>2
  <2> QED
    BY <1>0, <2>1, PassingRunKeepsPolicy
<1>2. ApprovalNotBehind'
  <2> SUFFICES ASSUME NEW c \in Call, call'[c].pc \in {"approving", "checked"},
                      NEW d \in decisions', Approval(d),
                      LockOf(d.promo) = LockOf(call'[c].promo)
               PROVE  run'[d.run].policy <= run'[call'[c].run].policy
    BY DEF ApprovalNotBehind, NotBehind, Approval, LockOf
  <2>1. CASE d \in decisions
    <3>1. d.run \in Run /\ run'[d.run].policy = run[d.run].policy
      BY <1>0, <2>1, PassingRunKeepsPolicy DEF PolicyInv, DecidedOnPassingRun
    <3>2. CASE /\ call[c].pc \in {"approving", "checked"}
               /\ call'[c].promo = call[c].promo /\ call'[c].run = call[c].run
      <4>1. run'[call[c].run].policy = run[call[c].run].policy
        BY <1>0, <3>2, PassingRunKeepsPolicy DEF ReviewInv, CallEvidence
      <4> QED
        BY <2>1, <3>1, <3>2, <4>1 DEF PolicyInv, ApprovalNotBehind, NotBehind
    <3>3. CASE /\ run[call'[c].run].policy = policy
               /\ UNCHANGED <<vars, decisions>>
      BY <3>1, <3>3 DEF PolicyInv, PolicyNotAhead, vars, pipelineVars
    <3> QED
      BY <1>0, <3>2, <3>3, ApprovalUnderWay
  <2>2. CASE d \notin decisions
    <3>1. PICK e \in Call : /\ call[e].pc # "idle" /\ call'[e].pc = "idle"
                            /\ d.promo = call[e].promo
      BY <1>0, <2>2, NewDecision
    <3>2. /\ call[c].pc # "idle" /\ call'[c].promo = call[c].promo
      BY <1>0, <2>2, ApprovalUnderWay
    <3>3. e = c
      BY <1>0, <3>1, <3>2 DEF ReviewInv, CallHoldsLock
    <3> QED
      BY <3>1, <3>3
  <2> QED
    BY <2>1, <2>2
<1> QED
  BY <1>0, <1>1, <1>2, ReviewPinsPolicy, ReviewStepInv DEF PolicyInv

\* What changes about the evidence after a request is filed is looked at again
\* when it is decided: an agent that has had an approval under a policy never
\* gets another one on an evaluation under an older policy, whatever is published
\* or evaluated while its versions are filed and decided.
THEOREM PolicyOfApprovalsMovesForward == ReviewSpec => PolicyNeverFallsBack
<1>1. ReviewInit => PolicyNotAhead /\ DecidedOnPassingRun /\ ApprovalNotBehind
  <2> SUFFICES ASSUME ReviewInit
               PROVE  PolicyNotAhead /\ DecidedOnPassingRun /\ ApprovalNotBehind
    OBVIOUS
  <2>1. PolicyNotAhead
    BY DEF ReviewInit, PipelineInit, EvidenceInit, PolicyNotAhead, AbsentRun,
           HandlerAt
  <2> QED
    BY <2>1 DEF ReviewInit, DecidedOnPassingRun, ApprovalNotBehind, IdleCall
<1>2. PolicyInv /\ [ReviewNext]_allVars =>
         [\A d \in decisions, e \in decisions' \ decisions :
            Approval(d) /\ Approval(e) /\ LockOf(d.promo) = LockOf(e.promo)
               => run[d.run].policy <= run[e.run].policy]_allVars
  <2> SUFFICES ASSUME PolicyInv, [ReviewNext]_allVars,
                      NEW d \in decisions, NEW e \in decisions' \ decisions,
                      Approval(d), Approval(e), LockOf(d.promo) = LockOf(e.promo)
               PROVE  run[d.run].policy <= run[e.run].policy
    OBVIOUS
  <2>1. PICK c \in Call : /\ e.promo = call[c].promo /\ e.run = call[c].run
                          /\ call[c].pc = "checked"
    BY NewDecision DEF PolicyInv
  <2> QED
    BY <2>1 DEF PolicyInv, ApprovalNotBehind, NotBehind
<1>3. ReviewInit => PolicyInv
  BY <1>1, ReviewInitInv DEF PolicyInv
<1> QED
  BY <1>2, <1>3, PolicyStep, PTL DEF ReviewSpec, PolicyNeverFallsBack
=============================================================================
