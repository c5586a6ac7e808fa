-------------------------- MODULE PublicDemo_proofs --------------------------
(***************************************************************************)
(* The resets of the public demo only do what a reviewer may do: DemoSpec  *)
(* implements ReviewSpec, so that all that is proved of the reviews holds  *)
(* beside the resets.  What a reset answers rests on one more fact, that a *)
(* rejection is never taken back.  The overview is proved to agree with    *)
(* the handlers here as well.                                              *)
(***************************************************************************)
EXTENDS PublicDemo, Dashboard, PromotionReview_proofs

\* The handlers of the resets and the drafts are well typed.
ResetTypeOK == reset \in [Reset -> ResetState] /\ draft \subseteq Reset

-----------------------------------------------------------------------------
(* The resets implement the reviews *)

\* A step of the demo is a step of the reviews or leaves them alone.
LEMMA DemoStepIsReviewStep ==
    ASSUME ResetTypeOK, [DemoNext]_demoAllVars
    PROVE  [ReviewNext]_allVars
<1> USE DemoAssumption
<1>1. CASE UNCHANGED demoAllVars
  BY <1>1 DEF demoAllVars
<1>2. ASSUME NEW s \in Reset, ResetStep(s) PROVE [ReviewNext]_allVars
  <2>1. ResetCall[s] \in Call
    OBVIOUS
  <2>2. CASE BeginReset(s) \/ FailOnDecided(s) \/ CreateDraft(s)
    BY <2>2 DEF BeginReset, FailOnDecided, CreateDraft
  <2>3. CASE BeginClosing(s)
    <3>1. Left(s) \subseteq Promo
      BY DEF ResetTypeOK, ResetState, Left
    <3> QED
      BY <2>1, <2>3, <3>1 DEF BeginClosing, ReviewNext, ReviewStep
  <2>4. CASE FinishClosing(s)
    BY <2>1, <2>4 DEF FinishClosing, ReviewNext, ReviewStep, CallStep
  <2>5. CASE FailReset(s)
    BY <2>1, <2>5 DEF FailReset, ReviewNext, ReviewStep, CallStep
  <2> QED
    BY <1>2, <2>2, <2>3, <2>4, <2>5 DEF ResetStep
<1>3. CASE VisitorStep
  BY <1>3 DEF VisitorStep, VisitorCall, ReviewNext, ReviewStep
<1> QED
  BY <1>1, <1>2, <1>3 DEF DemoNext

-----------------------------------------------------------------------------
(* The inductive invariant *)

\* What a reset has closed is rejected, and closed by no other reset.
ClosedIsRejected ==
    /\ \A s \in Reset : \A p \in reset[s].closed : promo[p].status = "REJECTED"
    /\ \A s, t \in Reset : s # t => reset[s].closed \cap reset[t].closed = {}

\* A reset is done when it has closed all it found, and only then has a draft.
DoneHasClosed ==
    /\ \A s \in Reset : reset[s].pc = "done" => Left(s) = {}
    /\ \A s \in draft : reset[s].pc = "done"

DemoInv ==
    /\ ReviewInv
    /\ ResetTypeOK
    /\ ClosedIsRejected
    /\ DoneHasClosed

\* It holds initially.
LEMMA DemoInitInv == DemoInit => DemoInv
BY ReviewInitInv
   DEF DemoInit, DemoInv, ResetTypeOK, ResetState, ClosedIsRejected, DoneHasClosed,
       Left

\* A rejection is never taken back: only what is absent is filed and only what
\* is pending is decided.
LEMMA RejectedForGood ==
    ASSUME ReviewInv, [ReviewNext]_allVars, NEW p \in Promo,
           promo[p].status = "REJECTED"
    PROVE  promo'[p].status = "REJECTED"
<1> USE DEF ReviewInv
<1>0. promo \in [Promo -> PromotionRequest]
  BY DEF ReviewTypeOK
<1>1. CASE UNCHANGED promo
  BY <1>1
<1>2. ASSUME NEW q \in Promo, CommitFiling(q) PROVE promo'[p].status = "REJECTED"
  BY <1>0, <1>2 DEF CommitFiling, FilingInv
<1>3. ASSUME NEW c \in Call, CommitApproval(c) \/ CommitRejection(c)
      PROVE  promo'[p].status = "REJECTED"
  BY <1>0, <1>3 DEF CommitApproval, CommitRejection, CallHoldsLock
<1>4. UNCHANGED promo \/ (\E q \in Promo : CommitFiling(q))
        \/ \E c \in Call : CommitApproval(c) \/ CommitRejection(c)
  BY DEF ReviewNext, ReviewStep, CallStep, allVars, reviewVars, BeginFiling,
         RefuseFiling, BeginApproval, BeginRejection, CheckApproval, AbandonCall
<1> QED
  BY <1>1, <1>2, <1>3, <1>4

\* Every step keeps it.
LEMMA DemoStepInv == DemoInv /\ [DemoNext]_demoAllVars => DemoInv'
<1> SUFFICES ASSUME DemoInv, [DemoNext]_demoAllVars PROVE DemoInv'
  OBVIOUS
<1> USE DemoAssumption DEF DemoInv
<1>1. [ReviewNext]_allVars
  BY DemoStepIsReviewStep
<1>2. ReviewInv'
  BY <1>1, ReviewStepInv
<1>3. \A p \in Promo : promo[p].status = "REJECTED" => promo'[p].status = "REJECTED"
  BY <1>1, RejectedForGood
<1>4. CASE UNCHANGED demoVars
  BY <1>2, <1>3, <1>4
     DEF demoVars, ResetTypeOK, ResetState, ClosedIsRejected, DoneHasClosed, Left
<1>5. ASSUME NEW s \in Reset,
             BeginReset(s) \/ BeginClosing(s) \/ FailOnDecided(s)
               \/ CreateDraft(s) \/ FailReset(s)
      PROVE  DemoInv'
  <2>1. ResetTypeOK'
    BY <1>5 DEF ResetTypeOK, ResetState, BeginReset, DemoPending, BeginClosing,
                FailOnDecided, CreateDraft, FailReset, Goto
  <2>2. \A t \in Reset : reset'[t].closed \subseteq reset[t].closed
    BY <1>5 DEF ResetTypeOK, ResetState, BeginReset, BeginClosing,
                FailOnDecided, CreateDraft, FailReset, Goto
  <2>3. ClosedIsRejected'
    BY <1>3, <2>2 DEF ClosedIsRejected, ResetTypeOK, ResetState
  <2>4. DoneHasClosed'
    BY <1>5 DEF DoneHasClosed, Left, ResetTypeOK, ResetState, BeginReset,
                BeginClosing, FailOnDecided, CreateDraft, FailReset, Goto
  <2> QED
    BY <1>2, <2>1, <2>3, <2>4
<1>6. ASSUME NEW s \in Reset, FinishClosing(s) PROVE DemoInv'
  <2> DEFINE p == call[ResetCall[s]].promo
  <2>1. /\ CommitRejection(ResetCall[s])
        /\ ResetCall[s] \in Call
        /\ reset' = [reset EXCEPT ![s].pc = "closing", ![s].closed = @ \cup {p}]
        /\ draft' = draft
    BY <1>6 DEF FinishClosing
  <2>2. p \in Promo /\ promo[p].status = "PENDING"
    BY <2>1, ActiveCallType
       DEF CommitRejection, ReviewInv, CallHoldsLock, ReviewTypeOK
  <2>3. promo'[p].status = "REJECTED"
    BY <2>1, <2>2 DEF CommitRejection, ReviewInv, ReviewTypeOK, PromotionRequest
  <2>4. /\ reset \in [Reset -> ResetState]
        /\ reset'[s].closed = reset[s].closed \cup {p}
        /\ \A t \in Reset \ {s} : reset'[t] = reset[t]
        /\ reset'[s].pc = "closing"
    BY <2>1 DEF ResetTypeOK, ResetState
  <2>5. ResetTypeOK'
    <3>1. [reset[s] EXCEPT !.pc = "closing", !.closed = @ \cup {p}] \in ResetState
      BY <2>2, <2>4 DEF ResetState
    <3>2. reset' = [reset EXCEPT ![s] = [reset[s] EXCEPT !.pc = "closing",
                                                        !.closed = @ \cup {p}]]
      BY <2>1, <2>4
    <3> HIDE DEF p
    <3>3. reset' \in [Reset -> ResetState]
      BY <2>4, <3>1, <3>2
    <3> QED
      BY <2>1, <3>3 DEF ResetTypeOK
  <2>6. \A t \in Reset : p \notin reset[t].closed
    BY <2>2 DEF ClosedIsRejected
  <2>7. ClosedIsRejected'
    <3>1. ASSUME NEW t \in Reset, NEW q \in reset'[t].closed
          PROVE  promo'[q].status = "REJECTED"
      BY <1>3, <2>3, <2>4, <3>1 DEF ClosedIsRejected, ResetState
    <3>2. ASSUME NEW t \in Reset, NEW u \in Reset, t # u
          PROVE  reset'[t].closed \cap reset'[u].closed = {}
      BY <2>4, <2>6, <3>2 DEF ClosedIsRejected
    <3> QED
      BY <3>1, <3>2 DEF ClosedIsRejected
  <2>8. DoneHasClosed'
    BY <1>6, <2>1, <2>4 DEF DoneHasClosed, FinishClosing, Left, ResetTypeOK
  <2> QED
    BY <1>2, <2>5, <2>7, <2>8
<1> QED
  BY <1>4, <1>5, <1>6 DEF DemoNext, ResetStep, demoAllVars

\* The inductive invariant is an invariant.
LEMMA DemoInvariance == DemoSpec => []DemoInv
BY DemoInitInv, DemoStepInv, PTL DEF DemoSpec

-----------------------------------------------------------------------------
\* Seen by the reviews, a reset is a reviewer: with any number of resets that
\* overlap and fail anywhere, everything proved of ReviewSpec holds.
THEOREM DemoImplementsReview == DemoSpec => ReviewSpec
<1>1. DemoInit => ReviewInit
  BY DEF DemoInit
<1>2. DemoInv /\ [DemoNext]_demoAllVars => [ReviewNext]_allVars
  BY DemoStepIsReviewStep DEF DemoInv
<1> QED
  BY <1>1, <1>2, DemoInvariance, PTL DEF DemoSpec, ReviewSpec

\* Resets, drafts and reviews keep their types.
THEOREM DemoTypeCorrect == DemoSpec => []DemoTypeOK
<1>1. DemoInv => DemoTypeOK
  BY DEF DemoInv, ResetTypeOK, DemoTypeOK, ReviewInv
<1> QED
  BY <1>1, DemoInvariance, PTL

\* What reset_demo_environment answers is what it did: all it found is rejected,
\* by this reset alone, and only then a fresh version is there.
THEOREM ResetsAnswerTruly == DemoSpec => []ResetAnswerIsTrue
<1>1. DemoInv => ResetAnswerIsTrue
  BY DEF DemoInv, ResetTypeOK, ClosedIsRejected, DoneHasClosed, Left,
         ResetAnswerIsTrue
<1> QED
  BY <1>1, DemoInvariance, PTL

-----------------------------------------------------------------------------
(* What carries over from the reviews *)

\* With resets of the demo at work, the reviews keep the promise of
\* RecommendedSlot where no version is evaluated twice, and an agent that has a
\* recommended version always has one.
THEOREM SlotKeptInDemo ==
    EvaluatedOnce =>
        /\ DemoSpec => ImplementsSlot
        /\ \A a \in Agent :
              DemoSpec => [](Recommended(a) # {} => [](Recommended(a) # {}))
BY SlotKeptWhenEvaluatedOnce, SlotNeverEmpties, DemoImplementsReview

\* A reset takes nothing back either: what visitors had decided stays decided, and
\* its decision and event stay.
THEOREM DemoTakesNothingBack ==
    DemoSpec => [][/\ \A p \in Promo : Decided(p) => promo'[p] = promo[p]
                   /\ decisions \subseteq decisions'
                   /\ outbox \subseteq outbox']_allVars
BY DecisionsAreFinal, DemoImplementsReview, PTL

\* What a reset has answered stays true: the requests it found are rejected for
\* good, whatever visitors and later resets do.
THEOREM ResetAnswerStays ==
    \A s \in Reset :
        DemoSpec => [](reset[s].pc = "done"
                          => [](\A p \in reset[s].found : promo[p].status = "REJECTED"))
<1> TAKE s \in Reset
<1>1. DemoInv /\ [DemoNext]_demoAllVars /\ reset[s].pc = "done"
         => (reset[s].pc = "done")'
  BY DEF DemoInv, ResetTypeOK, ResetState, DemoNext, ResetStep, demoAllVars, demoVars,
         BeginReset, BeginClosing, FinishClosing, FailOnDecided, CreateDraft,
         FailReset, Goto
<1>2. DemoInv /\ reset[s].pc = "done"
         => \A p \in reset[s].found : promo[p].status = "REJECTED"
  BY DEF DemoInv, ResetTypeOK, ResetState, ClosedIsRejected, DoneHasClosed, Left
<1> QED
  BY <1>1, <1>2, DemoInvariance, PTL DEF DemoSpec

-----------------------------------------------------------------------------
(* The overview *)

\* An evaluated version has a latest passing run.
LEMMA EvaluatedHasLatest ==
    ASSUME EvaluatedHasPassingRun, NEW v \in Version, stage[v] = "EVALUATED"
    PROVE  LatestPassing(v) # {}
<1>1. PassingRuns(v) # {}
  BY DEF EvaluatedHasPassingRun
<1>2. PICK m \in PassingRuns(v) : \A r \in PassingRuns(v) : r <= m
  BY <1>1, LatestAssumption, PassingRunsType
<1> QED
  BY <1>2 DEF LatestPassing

\* The overview and the handlers agree beside any number of reviews, because the
\* gates of a cited run go on passing.
THEOREM OverviewAgrees == ReviewSpec => []DashboardAgrees
<1>1. ReviewInv => DashboardAgrees
  <2> SUFFICES ASSUME ReviewInv PROVE DashboardAgrees
    OBVIOUS
  <2>1. ASSUME NEW p \in Promo, promo[p].status = "PENDING"
        PROVE  p \in BlockedReviews <=> ~ApprovalPasses(p)
    <3>1. run[promo[p].run].gates = "passed"
      BY <2>1 DEF ReviewInv, CitedRunStillPasses, PassingRuns
    <3> QED
      BY <2>1, <3>1
         DEF BlockedReviews, ApprovalPasses, Eligible, PromotableStages
  <2>2. ASSUME NEW v \in Version, stage[v] = "EVALUATED", v \notin StaleEvaluated,
               ~HasPending(v)
        PROVE  FilingPasses(v)
    <3>1. LatestPassing(v) # {}
      BY <2>2, EvaluatedHasLatest DEF ReviewInv, PipelineInv
    <3> QED
      BY <2>2, <3>1
         DEF StaleEvaluated, HasStaleFindings, FilingPasses, PromotableStages
  <2> QED
    BY <2>1, <2>2 DEF DashboardAgrees
<1> QED
  BY <1>1, ReviewInvariance, PTL
=============================================================================
