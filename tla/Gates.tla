-------------------------------- MODULE Gates --------------------------------
(***************************************************************************)
(* The verdict of an evaluation: _evaluate_gates (services/gates.py) turns *)
(* a run summary of agent-eval and the pinned policy into one gate row per *)
(* criterion, and _persist_success (services/evaluation_worker.py) makes   *)
(* the version evaluated when every row passed.                            *)
(*                                                                         *)
(* Scores and rates are numbers on a bounded scale: mean scores between 0  *)
(* and MaxScore, a completion rate k/RateScale.  The state is one policy   *)
(* and the last evaluation judged by it; a step evaluates the version      *)
(* again with an answer that differs in one respect.                       *)
(***************************************************************************)
EXTENDS Naturals, FiniteSets

CONSTANTS
    Dimension,        \* dimensions evaluators score
    MaxScore,         \* bound: scores are 0..MaxScore
    Evaluator,        \* evaluator keys
    EvaluatorVersion, \* versions they may have
    Case,             \* cases of the dataset
    Tag,              \* tags of cases
    MaxTags,          \* bound: entries of the list of tags a policy names
    CaseTags,         \* the tags of each case
    RateScale,        \* a completion rate is a multiple of 1/RateScale
    MaxRegressions,   \* bound: regressions agent-eval may report
    None,             \* no threshold, score, version, baseline or subject
    Unset             \* a threshold entry without min_mean

ASSUME GatesAssumption ==
    /\ MaxScore \in Nat
    /\ IsFiniteSet(Case)
    /\ CaseTags \in [Case -> SUBSET Tag]
    /\ MaxTags \in Nat
    /\ RateScale \in Nat \ {0}
    /\ MaxRegressions \in Nat
    /\ None \notin Nat
    /\ Unset \notin Nat
    /\ None \notin EvaluatorVersion

VARIABLES
    policy,  \* the evaluation policy the run was requested under
    result,  \* the run summary, and what else the gates are computed from
    gates    \* the gate rows of the run

gatesVars == <<policy, result, gates>>

-----------------------------------------------------------------------------
\* zero_failure_tags is a list that nobody deduplicates.
TagList == UNION {[1..n -> Tag] : n \in 0..MaxTags}

Policy ==
    [thresholds     : [Dimension -> (0..MaxScore) \cup {None, Unset}],
     required       : [Evaluator -> EvaluatorVersion \cup {None}],
     minRate        : 0..RateScale,
     maxRegressions : 0..MaxRegressions,
     zeroTags       : TagList]

\* create_evaluation_policy refuses a policy without an entry; an entry it
\* accepts may still lack its min_mean.
ValidPolicy ==
    {p \in Policy : \/ \E d \in Dimension : p.thresholds[d] # None
                    \/ \E e \in Evaluator : p.required[e] # None}

\* submitted: request_evaluation submits what the policy requires or refuses;
\* the gate function is judged on any submission.  cases: "absent" from the
\* run, or its status there.  regressions: None when no recommended version
\* has an evaluation to compare with.
CaseStatus == {"absent", "error", "success"}

Result ==
    [scores      : [Dimension -> (0..MaxScore) \cup {None}],
     submitted   : [Evaluator -> EvaluatorVersion \cup {None}],
     cases       : [Case -> CaseStatus],
     regressions : (0..MaxRegressions) \cup {None},
     grantsKept  : BOOLEAN]

GateType ==
    {"min_dimension_score", "required_evaluator_version", "min_completion_rate",
     "max_new_regressions", "zero_failures_for_tag",
     "capability_snapshot_consistency"}

Gate(type, about, passed) == [type |-> type, about |-> about, passed |-> passed]

-----------------------------------------------------------------------------
(* _evaluate_gates, criterion by criterion *)

\* An entry without min_mean has no gate.
Thresholded(p) == {d \in Dimension : p.thresholds[d] \notin {None, Unset}}

Required(p) == {e \in Evaluator : p.required[e] # None}

\* Mutant: a dimension without a score is skipped, as one without a threshold.
ScoredGates(p, r) ==
    {Gate("min_dimension_score", d, r.scores[d] >= p.thresholds[d]) :
        d \in {x \in Thresholded(p) : r.scores[x] # None}}

\* A dimension that produced no applicable score fails its threshold.
ScoreGates(p, r) ==
    {Gate("min_dimension_score", d,
          r.scores[d] # None /\ r.scores[d] >= p.thresholds[d]) :
        d \in Thresholded(p)}

EvaluatorGates(p, r) ==
    {Gate("required_evaluator_version", e, r.submitted[e] = p.required[e]) :
        e \in Required(p)}

CasesOf(r) == {c \in Case : r.cases[c] # "absent"}

Successes(r) == {c \in Case : r.cases[c] = "success"}

\* Mutant: an answer without a case counts as complete.
CompletionGateOfEmpty(p, r) ==
    Gate("min_completion_rate", None,
         Cardinality(Successes(r)) * RateScale
            >= p.minRate * Cardinality(CasesOf(r)))

\* n_success / total >= min_completion_rate, the rate of an empty run being 0.
CompletionGate(p, r) ==
    Gate("min_completion_rate", None,
         IF CasesOf(r) = {}
         THEN p.minRate = 0
         ELSE Cardinality(Successes(r)) * RateScale
                 >= p.minRate * Cardinality(CasesOf(r)))

\* Mutant: the comparison with the tolerated number is the wrong way round.
RegressionGateInverted(p, r) ==
    Gate("max_new_regressions", None,
         r.regressions = None \/ r.regressions >= p.maxRegressions)

\* Nothing to regress against is a pass.
RegressionGate(p, r) ==
    Gate("max_new_regressions", None,
         r.regressions = None \/ r.regressions <= p.maxRegressions)

\* The cases agent-eval returns for the tag and that did not succeed.
FailedWithTag(r, t) == {c \in Case : t \in CaseTags[c] /\ r.cases[c] = "error"}

\* A row for each entry of the list, a tag named twice having two.
TagGates(p, r) ==
    {Gate("zero_failures_for_tag", i, FailedWithTag(r, p.zeroTags[i]) = {}) :
        i \in DOMAIN p.zeroTags}

SnapshotGate(r) == Gate("capability_snapshot_consistency", None, r.grantsKept)

ComputeGates(p, r) ==
    ScoreGates(p, r) \cup EvaluatorGates(p, r) \cup TagGates(p, r)
        \cup {CompletionGate(p, r), RegressionGate(p, r), SnapshotGate(r)}

\* all_passed of _persist_success.
AllPassed(rows) == \A g \in rows : g.passed

-----------------------------------------------------------------------------
GatesInit ==
    /\ policy \in ValidPolicy
    /\ result \in Result
    /\ gates = ComputeGates(policy, result)

Judge(r) ==
    /\ result' = r
    /\ gates' = ComputeGates(policy, r)
    /\ UNCHANGED policy

\* The ways in which the next evaluation of the version may differ.
ScoredDifferently(d) ==
    \E s \in (0..MaxScore) \cup {None} : Judge([result EXCEPT !.scores[d] = s])

SubmittedDifferently(e) ==
    \E x \in EvaluatorVersion \cup {None} :
        Judge([result EXCEPT !.submitted[e] = x])

CaseEndsDifferently(c) ==
    \E s \in CaseStatus : Judge([result EXCEPT !.cases[c] = s])

ComparedDifferently ==
    \E n \in (0..MaxRegressions) \cup {None} :
        Judge([result EXCEPT !.regressions = n])

GrantsDrift == Judge([result EXCEPT !.grantsKept = ~result.grantsKept])

GatesNext ==
    \/ \E d \in Dimension : ScoredDifferently(d)
    \/ \E e \in Evaluator : SubmittedDifferently(e)
    \/ \E c \in Case : CaseEndsDifferently(c)
    \/ ComparedDifferently
    \/ GrantsDrift

GatesSpec == GatesInit /\ [][GatesNext]_gatesVars

-----------------------------------------------------------------------------
(* Properties *)

\* What a policy asks for: each threshold, each required evaluator, each entry
\* of its list of tags, and the three criteria every policy has.
Criteria(p) ==
    ({"min_dimension_score"} \X Thresholded(p))
        \cup ({"required_evaluator_version"} \X Required(p))
        \cup ({"zero_failures_for_tag"} \X DOMAIN p.zeroTags)
        \cup ({"min_completion_rate", "max_new_regressions",
               "capability_snapshot_consistency"} \X {None})

\* Every criterion of the policy has exactly one gate row, the ones agent-eval
\* reported nothing about included: a criterion is never silently skipped
\* (_evaluate_gates).
OneGatePerCriterion ==
    /\ \A g, h \in gates : g.type = h.type /\ g.about = h.about => g = h
    /\ {<<g.type, g.about>> : g \in gates} = Criteria(policy)

\* agent-eval answered without a score and without a case.
NothingMeasured(r) ==
    (\A d \in Dimension : r.scores[d] = None) /\ CasesOf(r) = {}

\* An answer in which nothing was measured is never good enough for a policy
\* that names a threshold or a completion rate above zero, although the gates
\* of evaluators, tags, regressions and grants may all pass then
\* (_evaluate_gates).  A policy of required evaluators alone with a rate of
\* zero does pass: its gate looks at what the platform itself submitted.
EmptyEvidenceNeverPasses ==
    /\ Thresholded(policy) # {} \/ policy.minRate > 0
    /\ NothingMeasured(result)
    => ~AllPassed(gates)

\* q is at least as good as r in every respect the policy may look at, on the
\* same cases and with the same evaluators.
AtLeastAsGood(q, r) ==
    /\ \A d \in Dimension :
          \/ r.scores[d] = None
          \/ q.scores[d] # None /\ q.scores[d] >= r.scores[d]
    /\ q.submitted = r.submitted
    /\ CasesOf(q) = CasesOf(r)
    /\ Successes(r) \subseteq Successes(q)
    /\ \/ q.regressions = None
       \/ r.regressions # None /\ q.regressions <= r.regressions
    /\ r.grantsKept => q.grantsKept

\* Doing better never costs the verdict: an evaluation at least as good as one
\* that passed, in every respect, passes as well.  No criterion is blended
\* with or traded against another one.
BetterRunStillPasses ==
    [][AtLeastAsGood(result', result) /\ AllPassed(gates)
         => AllPassed(gates')]_gatesVars
=============================================================================
