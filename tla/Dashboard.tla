------------------------------ MODULE Dashboard ------------------------------
(***************************************************************************)
(* What get_dashboard_summary (services/dashboard.py) tells people to look *)
(* at, computed by check_freshness as the handlers of PromotionReview are, *)
(* but with sets of stages of its own.  It is a read: nothing is stored.   *)
(***************************************************************************)
EXTENDS PromotionReview

\* Any runs there are have a latest one: there are finitely many.
ASSUME LatestAssumption ==
    \A S \in SUBSET Run : S = {} \/ \E m \in S : \A r \in S : r <= m

\* currently_eligible of check_freshness; it needs a passing run.
Eligible(v, stages) ==
    stage[v] \in stages /\ \E r \in LatestPassing(v) : Fresh(r)

\* Mutant: only the findings that need no call of agent-eval.
HasPolicyFinding(v) == \E r \in LatestPassing(v) : ~PolicyIsCurrent(r)

\* stale_findings of check_freshness are not empty: none without a passing run.
HasStaleFindings(v) == \E r \in LatestPassing(v) : ~Fresh(r)

\* stale_evaluated
StaleEvaluated == {v \in Version : stage[v] = "EVALUATED" /\ HasStaleFindings(v)}

\* blocked_review, of the requests that are listed and whose check did not fail:
\* a failing one is swallowed.
BlockedReviews ==
    {p \in Promo : /\ promo[p].status = "PENDING"
                   /\ ~Eligible(PromoVersion[p], {"EVALUATED", "DEPRECATED"})}

-----------------------------------------------------------------------------
\* What approve_promotion goes by, if nothing moves while it runs.
ApprovalPasses(p) ==
    /\ stage[PromoVersion[p]] \in PromotableStages
    /\ run[promo[p].run].gates = "passed"
    /\ \E r \in LatestPassing(PromoVersion[p]) : Fresh(r)

\* What request_promotion goes by.
FilingPasses(v) ==
    /\ stage[v] \in PromotableStages
    /\ ~HasPending(v)
    /\ \E r \in LatestPassing(v) : Fresh(r)

-----------------------------------------------------------------------------
(* Properties *)

\* The overview and the handlers agree at every moment at which agent-eval
\* answers: a pending review is shown as blocked exactly when its approval would
\* be refused now, and an evaluated version that is not shown as stale and has no
\* pending request can be requested now (get_dashboard_summary).
DashboardAgrees ==
    /\ \A p \in Promo :
          promo[p].status = "PENDING" => (p \in BlockedReviews <=> ~ApprovalPasses(p))
    /\ \A v \in Version :
          stage[v] = "EVALUATED" /\ v \notin StaleEvaluated /\ ~HasPending(v)
              => FilingPasses(v)
=============================================================================
