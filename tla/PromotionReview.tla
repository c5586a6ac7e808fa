--------------------------- MODULE PromotionReview ---------------------------
(***************************************************************************)
(* How an evaluated version becomes the recommended one of its agent:      *)
(* request_promotion, approve_promotion and reject_promotion               *)
(* (services/promotions.py) with the evidence check they share             *)
(* (services/freshness.py), running beside the evaluation pipeline.        *)
(*                                                                         *)
(* A decision holds the advisory lock of the agent from its first read to  *)
(* its commit.  The lock excludes other decisions only: the worker, the    *)
(* evaluation handlers and the evidence go on moving under it.  As in the  *)
(* pipeline, a handler is cut where it awaits agent-eval.                  *)
(***************************************************************************)
EXTENDS EvaluationPipeline

CONSTANTS
    Agent,          \* agents
    VersionAgent,   \* the agent each version belongs to
    User,           \* human users
    Reviewer,       \* users whose role may decide a promotion
    Promo,          \* promotion requests
    PromoVersion,   \* the version each request is about
    PromoRequester, \* the user who files it
    Call,           \* concurrent calls of approve and reject
    NoCall,         \* the lock is free
    NoPromo,        \* a call that is not running
    NoVersion       \* an agent without a recommended version

ASSUME ReviewAssumption ==
    /\ VersionAgent \in [Version -> Agent]
    /\ Reviewer \subseteq User
    /\ PromoVersion \in [Promo -> Version]
    /\ PromoRequester \in [Promo -> User]
    /\ NoCall \notin Call
    /\ NoPromo \notin Promo
    /\ NoVersion \notin Version

VARIABLES
    promo,     \* promo[p]: the promotion_requests row
    filing,    \* filing[p]: the handler of request_promotion
    call,      \* call[c]: a handler of approve_promotion or reject_promotion
    lock,      \* lock[a]: the call holding pg_advisory_xact_lock of the agent
    decisions, \* promotion_decisions rows
    outbox     \* requests that have an agent_version.promoted event row

reviewVars == <<promo, filing, call, lock, decisions, outbox>>

allVars == <<vars, reviewVars>>

-----------------------------------------------------------------------------
PromotableStages == {"EVALUATED", "DEPRECATED"}

PromotionRequest ==
    [status : {"absent", "PENDING", "APPROVED", "REJECTED"},
     from   : Stage,
     run    : Run \cup {NoRun}]

AbsentPromo == [status |-> "absent", from |-> "DRAFT", run |-> NoRun]

Filing ==
    [pc : {"idle", "reading", "done"}, saw : Stage, run : Run \cup {NoRun}]

FilingAt(pc) == [pc |-> pc, saw |-> "DRAFT", run |-> NoRun]

IdleCall == [pc |-> "idle", promo |-> NoPromo, run |-> NoRun, prod |-> {}]

\* run: the evaluation whose evidence the call checks; prod: the recommended
\* version it found, a set of at most one element.
CallState ==
    {IdleCall} \cup
    [pc : {"rejecting", "approving", "checked"}, promo : Promo,
     run : Run \cup {NoRun}, prod : SUBSET Version]

\* run: the evaluation the freshness snapshot of the decision is about;
\* rollback: the promotion.rollback audit event is written.  The table is unique
\* in the request: equal decisions of one request would not be two rows.
Decision ==
    [promo : Promo, verdict : {"APPROVE", "REJECT"}, run : Run \cup {NoRun},
     rollback : BOOLEAN]

ReviewTypeOK ==
    /\ PipelineTypeOK
    /\ promo \in [Promo -> PromotionRequest]
    /\ filing \in [Promo -> Filing]
    /\ call \in [Call -> CallState]
    /\ lock \in [Agent -> Call \cup {NoCall}]
    /\ decisions \subseteq Decision
    /\ outbox \subseteq Promo

ReviewInit ==
    /\ PipelineInit
    /\ promo = [p \in Promo |-> AbsentPromo]
    /\ filing = [p \in Promo |-> FilingAt("idle")]
    /\ call = [c \in Call |-> IdleCall]
    /\ lock = [a \in Agent |-> NoCall]
    /\ decisions = {}
    /\ outbox = {}

-----------------------------------------------------------------------------
(* check_freshness *)

\* Mutant: the runs are ordered by requested_at ascending.
EarliestPassing(v) ==
    {r \in PassingRuns(v) : \A q \in PassingRuns(v) : r <= q}

\* _latest_historically_passing_reference, by requested_at; no or one run.
LatestPassing(v) ==
    {r \in PassingRuns(v) : \A q \in PassingRuns(v) : q <= r}

\* The findings computed before agent-eval is called: policy_changed.
PolicyIsCurrent(r) == run[r].policy = policy

\* The findings computed after it: evaluator_version_changed or
\* missing_required_evaluator, dataset_changed, capability_grants_changed.
EvidenceIsUnchanged(r) ==
    /\ evaluator = RequiredEvaluator[run[r].policy]
    /\ dataset = run[r].dataset
    /\ Snapshot(RunVersion[r]) = run[r].grants

Fresh(r) == PolicyIsCurrent(r) /\ EvidenceIsUnchanged(r)

HasPending(v) ==
    \E p \in Promo : PromoVersion[p] = v /\ promo[p].status = "PENDING"

-----------------------------------------------------------------------------
(* request_promotion, which takes no lock *)

\* Up to the first call of agent-eval.
BeginFiling(p) ==
    LET v == PromoVersion[p] IN
    /\ filing[p].pc = "idle"
    /\ stage[v] \in PromotableStages
    /\ ~HasPending(v)
    /\ \E r \in LatestPassing(v) :
          /\ PolicyIsCurrent(r)
          /\ filing' = [filing EXCEPT
                          ![p] = [pc |-> "reading", saw |-> stage[v], run |-> r]]
    /\ UNCHANGED <<vars, promo, call, lock, decisions, outbox>>

\* Mutant: no partial unique index, the check at the beginning is the only one.
CommitFilingUnindexed(p) ==
    /\ filing[p].pc = "reading"
    /\ EvidenceIsUnchanged(filing[p].run)
    /\ promo' = [promo EXCEPT
                   ![p] = [status |-> "PENDING", from |-> filing[p].saw,
                           run |-> filing[p].run]]
    /\ filing' = [filing EXCEPT ![p] = FilingAt("done")]
    /\ UNCHANGED <<vars, call, lock, decisions, outbox>>

\* The evidence is fresh and the partial unique index on pending requests
\* accepts the row, whose from_stage is the stage read at the beginning.
CommitFiling(p) ==
    /\ filing[p].pc = "reading"
    /\ EvidenceIsUnchanged(filing[p].run)
    /\ ~HasPending(PromoVersion[p])
    /\ promo' = [promo EXCEPT
                   ![p] = [status |-> "PENDING", from |-> filing[p].saw,
                           run |-> filing[p].run]]
    /\ filing' = [filing EXCEPT ![p] = FilingAt("done")]
    /\ UNCHANGED <<vars, call, lock, decisions, outbox>>

\* Mutant: a refused request leaves the handler in a state nobody knows.
RefuseFilingUnknown(p) ==
    /\ filing[p].pc = "reading"
    /\ filing' = [filing EXCEPT ![p] = FilingAt("refused")]
    /\ UNCHANGED <<vars, promo, call, lock, decisions, outbox>>

\* Stale evidence, the index, agent-eval down, or the handler dies.
RefuseFiling(p) ==
    /\ filing[p].pc = "reading"
    /\ filing' = [filing EXCEPT ![p] = FilingAt("done")]
    /\ UNCHANGED <<vars, promo, call, lock, decisions, outbox>>

-----------------------------------------------------------------------------
(* approve_promotion and reject_promotion *)

\* can_decide_promotion: some reviewer other than the requester.
MayBeDecided(p) == \E u \in Reviewer : u # PromoRequester[p]

LockOf(p) == VersionAgent[PromoVersion[p]]

\* Mutant: no advisory lock is taken before the decision.
PendingUnlocked(p) == MayBeDecided(p) /\ promo[p].status = "PENDING"

\* Mutant: the request is not read again once the lock is granted.
LockUnchecked(p) ==
    /\ MayBeDecided(p)
    /\ lock[LockOf(p)] = NoCall
    /\ promo[p].status # "absent"

\* The lock is granted and the request, read again under it, is pending.
LockPending(p) ==
    /\ MayBeDecided(p)
    /\ lock[LockOf(p)] = NoCall
    /\ promo[p].status = "PENDING"

\* Mutant: the current version is looked up among the evaluated ones as well.
RecommendedOrEvaluated(a) ==
    {v \in Version :
       VersionAgent[v] = a /\ stage[v] \in {"RECOMMENDED", "EVALUATED"}}

\* _get_current_production_lifecycle, as a set.
Recommended(a) ==
    {v \in Version : VersionAgent[v] = a /\ stage[v] = "RECOMMENDED"}

\* Mutant: the policy checked when the request was filed is not read again.
BeginApprovalStale(c, p) ==
    /\ call[c].pc = "idle"
    /\ LockPending(p)
    /\ stage[PromoVersion[p]] \in PromotableStages
    /\ run[promo[p].run].gates = "passed"
    /\ lock' = [lock EXCEPT ![LockOf(p)] = c]
    /\ \E r \in LatestPassing(PromoVersion[p]) :
          call' = [call EXCEPT ![c] = [pc |-> "approving", promo |-> p,
                                       run |-> r, prod |-> {}]]
    /\ UNCHANGED <<vars, promo, filing, decisions, outbox>>

BeginApproval(c, p) ==
    LET v == PromoVersion[p] IN
    /\ call[c].pc = "idle"
    /\ LockPending(p)
    /\ stage[v] \in PromotableStages
    /\ run[promo[p].run].gates = "passed"
    /\ lock' = [lock EXCEPT ![LockOf(p)] = c]
    /\ \E r \in LatestPassing(v) :
          /\ PolicyIsCurrent(r)
          /\ call' = [call EXCEPT ![c] = [pc |-> "approving", promo |-> p,
                                          run |-> r, prod |-> {}]]
    /\ UNCHANGED <<vars, promo, filing, decisions, outbox>>

\* agent-eval answered, the evidence is fresh; the current recommended version
\* is read.  The stage of the version itself is not read again.
CheckApproval(c) ==
    /\ call[c].pc = "approving"
    /\ EvidenceIsUnchanged(call[c].run)
    /\ call' = [call EXCEPT
                  ![c] = [pc |-> "checked", promo |-> call[c].promo,
                          run |-> call[c].run,
                          prod |-> Recommended(LockOf(call[c].promo))]]
    /\ UNCHANGED <<vars, promo, filing, lock, decisions, outbox>>

\* One commit: the previous recommended version is deprecated, this one is
\* recommended, the decision, the audit rows and the outbox row are inserted.
CommitApproval(c) ==
    LET p == call[c].promo
        v == PromoVersion[p]
    IN
    /\ call[c].pc = "checked"
    /\ stage' = [x \in Version |->
                   CASE x = v -> "RECOMMENDED"
                     [] x \in call[c].prod \ {v} -> "DEPRECATED"
                     [] OTHER -> stage[x]]
    /\ promo' = [promo EXCEPT ![p].status = "APPROVED"]
    /\ decisions' = decisions \cup
         {[promo |-> p, verdict |-> "APPROVE", run |-> call[c].run,
           rollback |-> promo[p].from = "DEPRECATED"]}
    /\ outbox' = outbox \cup {p}
    /\ lock' = [lock EXCEPT ![LockOf(p)] = NoCall]
    /\ call' = [call EXCEPT ![c] = IdleCall]
    /\ UNCHANGED <<evidenceVars, run, handler, queue, worker, filing>>

\* The run is read before agent-eval is called; the version of a pending
\* request has one, the cited run at least.
BeginRejection(c, p) ==
    /\ call[c].pc = "idle"
    /\ LockPending(p)
    /\ lock' = [lock EXCEPT ![LockOf(p)] = c]
    /\ \E r \in LatestPassing(PromoVersion[p]) :
          call' = [call EXCEPT ![c] = [pc |-> "rejecting", promo |-> p,
                                       run |-> r, prod |-> {}]]
    /\ UNCHANGED <<vars, promo, filing, decisions, outbox>>

\* Freshness is recorded, not required; the stage is left alone.
CommitRejection(c) ==
    LET p == call[c].promo IN
    /\ call[c].pc = "rejecting"
    /\ promo' = [promo EXCEPT ![p].status = "REJECTED"]
    /\ decisions' = decisions \cup {[promo |-> p, verdict |-> "REJECT",
                                     run |-> call[c].run, rollback |-> FALSE]}
    /\ lock' = [lock EXCEPT ![LockOf(p)] = NoCall]
    /\ call' = [call EXCEPT ![c] = IdleCall]
    /\ UNCHANGED <<vars, filing, outbox>>

\* The evidence went stale (only the audit row approval_blocked_stale is
\* committed), agent-eval is down, or the handler dies: the transaction ends,
\* the lock with it, and the request stays pending.
AbandonCall(c) ==
    /\ call[c].pc # "idle"
    /\ lock' = [lock EXCEPT ![LockOf(call[c].promo)] = NoCall]
    /\ call' = [call EXCEPT ![c] = IdleCall]
    /\ UNCHANGED <<vars, promo, filing, decisions, outbox>>

-----------------------------------------------------------------------------
CallStep(c) ==
    \/ CheckApproval(c)
    \/ CommitApproval(c)
    \/ CommitRejection(c)
    \/ AbandonCall(c)

ReviewStep ==
    \/ \E p \in Promo : BeginFiling(p) \/ CommitFiling(p) \/ RefuseFiling(p)
    \/ \E c \in Call, p \in Promo : BeginApproval(c, p) \/ BeginRejection(c, p)
    \/ \E c \in Call : CallStep(c)

ReviewNext ==
    \/ ReviewStep
    \/ PipelineNext /\ UNCHANGED reviewVars

ReviewSpec == ReviewInit /\ [][ReviewNext]_allVars

-----------------------------------------------------------------------------
(* Properties *)

\* At most one version of an agent is recommended, however many approvals of
\* its versions, rollbacks and evaluations interleave (approve_promotion).
OneRecommended ==
    \A v, w \in Version :
        /\ VersionAgent[v] = VersionAgent[w]
        /\ stage[v] = "RECOMMENDED"
        /\ stage[w] = "RECOMMENDED"
        => v = w

\* The recommended version an approval found is still the only candidate for
\* deprecation when it writes: the partial unique index behind the advisory
\* lock never has to refuse an approval.
SlotReadIsCurrent ==
    \A c \in Call :
        call[c].pc = "checked"
            => Recommended(LockOf(call[c].promo)) \subseteq call[c].prod

\* A request is decided once, the way its status says, however many reviewers
\* approve and reject it at the same time.
DecidedOnce ==
    \A p \in Promo :
        LET mine == {d \in decisions : d.promo = p} IN
        IF promo[p].status \in {"APPROVED", "REJECTED"}
        THEN \E d \in mine :
                /\ mine = {d}
                /\ d.verdict = "APPROVE" <=> promo[p].status = "APPROVED"
        ELSE mine = {}

\* Two requests for one version are never pending together, although
\* request_promotion looks for a pending one long before it inserts.
OnePendingPerVersion ==
    \A p, q \in Promo :
        /\ PromoVersion[p] = PromoVersion[q]
        /\ promo[p].status = "PENDING"
        /\ promo[q].status = "PENDING"
        => p = q

\* The run a request cites is one of its version and keeps its passing gates:
\* what approve_promotion re-checks in depth can only hold.
CitedRunStillPasses ==
    \A p \in Promo :
        promo[p].status # "absent"
            => promo[p].run \in PassingRuns(PromoVersion[p])

\* A decision is never taken on older evidence than the request was filed on:
\* the run whose freshness it records is the cited one or a later one.
DecisionEvidenceNotOlder ==
    \A d \in decisions : d.run >= promo[d.promo].run

Approval(d) == d.verdict = "APPROVE"

\* Among the approvals of an agent a later one never rests on an evaluation
\* under an older policy than an earlier one: a request filed under a policy
\* that has been replaced since is not approved on it (approve_promotion).
PolicyNeverFallsBack ==
    [][\A d \in decisions, e \in decisions' \ decisions :
         Approval(d) /\ Approval(e) /\ LockOf(d.promo) = LockOf(e.promo)
            => run[d.run].policy <= run[e.run].policy]_allVars

\* A promotion is audited as a rollback only of a version that an earlier
\* request had promoted: nothing else ever becomes deprecated.
RollbackOfApproved ==
    \A d \in decisions :
        d.rollback => \E q \in Promo \ {d.promo} :
                         /\ PromoVersion[q] = PromoVersion[d.promo]
                         /\ promo[q].status = "APPROVED"

\* The promise of RecommendedSlot, with the stages read as the slot.
RecommendedVersion(a) ==
    IF Recommended(a) = {} THEN NoVersion ELSE CHOOSE v \in Recommended(a) : TRUE

Slot == INSTANCE RecommendedSlot WITH
    Owner <- Agent,
    VersionOwner <- VersionAgent,
    Request <- Promo,
    RequestVersion <- PromoVersion,
    slot <- [a \in Agent |-> RecommendedVersion(a)],
    status <- [p \in Promo |-> promo[p].status]

\* While no version is evaluated twice, the recommended version of an agent
\* changes only by an approval of a pending request for another version.
ImplementsSlot == Slot!SlotSpec

\* Stated by docs/evaluation-and-promotion.md ("recommended -> deprecated:
\* automatic, on a new promotion superseding it") as the only way out.
RecommendedLeavesOnlyBySupersession ==
    [][\A v \in Version :
         stage[v] = "RECOMMENDED" /\ stage'[v] # "RECOMMENDED"
            => /\ stage'[v] = "DEPRECATED"
               /\ \E w \in Version \ {v} :
                     /\ VersionAgent[w] = VersionAgent[v]
                     /\ stage'[w] = "RECOMMENDED"]_allVars
=============================================================================
