---------------------------- MODULE Gates_proofs ----------------------------
(***************************************************************************)
(* What the verdict of an evaluation promises, for every policy, every     *)
(* answer of agent-eval and any number of dimensions, evaluators, tags and *)
(* cases.  The state always holds the gates of its own policy and answer   *)
(* (GatesInv); the rest is about ComputeGates alone, criterion by          *)
(* criterion, and arithmetic on the cardinalities of the case sets.        *)
(***************************************************************************)
EXTENDS Gates, FiniteSetTheorems, TLAPS

GatesInv ==
    /\ policy \in ValidPolicy
    /\ result \in Result
    /\ gates = ComputeGates(policy, result)

\* Every way of judging again leaves an answer of agent-eval.
LEMMA JudgedType ==
    ASSUME result \in Result, GatesNext
    PROVE  result' \in Result /\ policy' = policy
                              /\ gates' = ComputeGates(policy, result')
<1>1. ASSUME NEW d \in Dimension, ScoredDifferently(d)
      PROVE  result' \in Result /\ policy' = policy
                                /\ gates' = ComputeGates(policy, result')
  BY <1>1 DEF ScoredDifferently, Judge, Result
<1>2. ASSUME NEW e \in Evaluator, SubmittedDifferently(e)
      PROVE  result' \in Result /\ policy' = policy
                                /\ gates' = ComputeGates(policy, result')
  BY <1>2 DEF SubmittedDifferently, Judge, Result
<1>3. ASSUME NEW c \in Case, CaseEndsDifferently(c)
      PROVE  result' \in Result /\ policy' = policy
                                /\ gates' = ComputeGates(policy, result')
  BY <1>3 DEF CaseEndsDifferently, Judge, Result
<1>4. ASSUME ComparedDifferently
      PROVE  result' \in Result /\ policy' = policy
                                /\ gates' = ComputeGates(policy, result')
  BY <1>4 DEF ComparedDifferently, Judge, Result
<1>5. ASSUME GrantsDrift
      PROVE  result' \in Result /\ policy' = policy
                                /\ gates' = ComputeGates(policy, result')
  BY <1>5 DEF GrantsDrift, Judge, Result
<1> QED
  BY <1>1, <1>2, <1>3, <1>4, <1>5 DEF GatesNext

\* The rows are always those of the policy and the answer.
LEMMA GatesInvariance == GatesSpec => []GatesInv
<1>1. GatesInit => GatesInv
  BY DEF GatesInit, GatesInv
<1>2. GatesInv /\ [GatesNext]_gatesVars => GatesInv'
  <2> SUFFICES ASSUME GatesInv, [GatesNext]_gatesVars PROVE GatesInv'
    OBVIOUS
  <2>1. CASE GatesNext
    BY <2>1, JudgedType DEF GatesInv
  <2>2. CASE UNCHANGED gatesVars
    BY <2>2 DEF gatesVars, GatesInv
  <2> QED
    BY <2>1, <2>2
<1> QED
  BY <1>1, <1>2, PTL DEF GatesSpec

\* A policy asks for the threshold of every dimension it thresholds.
LEMMA ThresholdType ==
    \A p \in Policy : \A d \in Thresholded(p) :
        d \in Dimension /\ p.thresholds[d] \in 0..MaxScore
BY DEF Policy, Thresholded

-----------------------------------------------------------------------------
(* Criteria are neither skipped nor doubled *)

\* A gate row is one of the six kinds.
LEMMA RowKinds ==
    ASSUME NEW p, NEW r, NEW g \in ComputeGates(p, r)
    PROVE  \/ \E d \in Thresholded(p) :
                 g = Gate("min_dimension_score", d,
                          r.scores[d] # None /\ r.scores[d] >= p.thresholds[d])
           \/ \E e \in Required(p) :
                 g = Gate("required_evaluator_version", e,
                          r.submitted[e] = p.required[e])
           \/ \E i \in DOMAIN p.zeroTags :
                 g = Gate("zero_failures_for_tag", i,
                          FailedWithTag(r, p.zeroTags[i]) = {})
           \/ g = CompletionGate(p, r)
           \/ g = RegressionGate(p, r)
           \/ g = SnapshotGate(r)
BY DEF ComputeGates, ScoreGates, EvaluatorGates, TagGates

\* Each row is about a criterion of the policy.
LEMMA RowIsCriterion ==
    ASSUME NEW p, NEW r, NEW g \in ComputeGates(p, r)
    PROVE  <<g.type, g.about>> \in Criteria(p)
BY RowKinds DEF Criteria, CompletionGate, RegressionGate, SnapshotGate, Gate

\* Each criterion of the policy has a row.
LEMMA CriterionHasRow ==
    ASSUME NEW p, NEW r, NEW x \in Criteria(p)
    PROVE  \E g \in ComputeGates(p, r) : x = <<g.type, g.about>>
<1>1. ASSUME NEW d \in Thresholded(p), x = <<"min_dimension_score", d>>
      PROVE  \E g \in ComputeGates(p, r) : x = <<g.type, g.about>>
  <2> DEFINE g == Gate("min_dimension_score", d,
                       r.scores[d] # None /\ r.scores[d] >= p.thresholds[d])
  <2>1. g \in ComputeGates(p, r)
    BY DEF ComputeGates, ScoreGates
  <2>2. x = <<g.type, g.about>>
    BY <1>1 DEF Gate
  <2> QED
    BY <2>1, <2>2
<1>2. ASSUME NEW e \in Required(p), x = <<"required_evaluator_version", e>>
      PROVE  \E g \in ComputeGates(p, r) : x = <<g.type, g.about>>
  <2> DEFINE g == Gate("required_evaluator_version", e,
                       r.submitted[e] = p.required[e])
  <2>1. g \in ComputeGates(p, r)
    BY DEF ComputeGates, EvaluatorGates
  <2>2. x = <<g.type, g.about>>
    BY <1>2 DEF Gate
  <2> QED
    BY <2>1, <2>2
<1>3. ASSUME NEW i \in DOMAIN p.zeroTags, x = <<"zero_failures_for_tag", i>>
      PROVE  \E g \in ComputeGates(p, r) : x = <<g.type, g.about>>
  <2> DEFINE g == Gate("zero_failures_for_tag", i,
                       FailedWithTag(r, p.zeroTags[i]) = {})
  <2>1. g \in ComputeGates(p, r)
    BY DEF ComputeGates, TagGates
  <2>2. x = <<g.type, g.about>>
    BY <1>3 DEF Gate
  <2> QED
    BY <2>1, <2>2
<1>4. /\ CompletionGate(p, r) \in ComputeGates(p, r)
      /\ RegressionGate(p, r) \in ComputeGates(p, r)
      /\ SnapshotGate(r) \in ComputeGates(p, r)
  BY DEF ComputeGates
<1>5. ASSUME x \in {"min_completion_rate", "max_new_regressions",
                    "capability_snapshot_consistency"} \X {None}
      PROVE  \E g \in ComputeGates(p, r) : x = <<g.type, g.about>>
  BY <1>4, <1>5 DEF CompletionGate, RegressionGate, SnapshotGate, Gate
<1> QED
  BY <1>1, <1>2, <1>3, <1>5 DEF Criteria

\* Two rows about one criterion are one row.
LEMMA RowsAreDistinct ==
    ASSUME NEW p, NEW r, NEW g \in ComputeGates(p, r), NEW h \in ComputeGates(p, r),
           g.type = h.type, g.about = h.about
    PROVE  g = h
BY RowKinds DEF CompletionGate, RegressionGate, SnapshotGate, Gate

\* Every criterion of the policy is judged, once, in every evaluation
\* (_evaluate_gates has no early exit and no row it may leave out).
THEOREM EveryCriterionIsJudged == GatesSpec => []OneGatePerCriterion
<1>1. GatesInv => OneGatePerCriterion
  <2> SUFFICES ASSUME GatesInv PROVE OneGatePerCriterion
    OBVIOUS
  <2>1. ASSUME NEW g \in gates, NEW h \in gates,
               g.type = h.type, g.about = h.about
        PROVE  g = h
    BY <2>1, RowsAreDistinct DEF GatesInv
  <2>2. \A g \in gates : <<g.type, g.about>> \in Criteria(policy)
    BY RowIsCriterion DEF GatesInv
  <2>3. \A x \in Criteria(policy) : \E g \in gates : x = <<g.type, g.about>>
    BY CriterionHasRow DEF GatesInv
  <2> QED
    BY <2>1, <2>2, <2>3 DEF OneGatePerCriterion
<1> QED
  BY <1>1, GatesInvariance, PTL

-----------------------------------------------------------------------------
(* Doing better never costs the verdict *)

\* The case sets of an answer are finite.
LEMMA CountsAreNumbers ==
    \A r : /\ IsFiniteSet(CasesOf(r)) /\ IsFiniteSet(Successes(r))
          /\ Cardinality(CasesOf(r)) \in Nat
          /\ Cardinality(Successes(r)) \in Nat
<1> SUFFICES ASSUME NEW r
             PROVE  /\ IsFiniteSet(CasesOf(r)) /\ IsFiniteSet(Successes(r))
                    /\ Cardinality(CasesOf(r)) \in Nat
                    /\ Cardinality(Successes(r)) \in Nat
  OBVIOUS
<1>1. CasesOf(r) \subseteq Case /\ Successes(r) \subseteq Case
  BY DEF CasesOf, Successes
<1>2. IsFiniteSet(CasesOf(r)) /\ IsFiniteSet(Successes(r))
  BY <1>1, GatesAssumption, FS_Subset
<1> QED
  BY <1>2, FS_CardinalityType

\* Multiplication by a rate keeps the order of counts.
LEMMA ScaledOrder ==
    \A m, n, k \in Nat : m <= n => m * k <= n * k
OBVIOUS

\* The completion gate of an answer that succeeds on more of the same cases.
LEMMA CompletionIsMonotone ==
    ASSUME NEW p \in Policy, NEW q, NEW r, CasesOf(q) = CasesOf(r),
           Successes(r) \subseteq Successes(q), CompletionGate(p, r).passed
    PROVE  CompletionGate(p, q).passed
<1>1. CASE CasesOf(r) = {}
  BY <1>1 DEF CompletionGate, Gate
<1>2. CASE CasesOf(r) # {}
  <2> DEFINE m == Cardinality(Successes(r))
             n == Cardinality(Successes(q))
             k == p.minRate * Cardinality(CasesOf(r))
  <2>1. m \in Nat /\ n \in Nat /\ k \in Nat
    BY CountsAreNumbers DEF Policy
  <2>2. m <= n
    BY CountsAreNumbers, FS_Subset
  <2>3. m * RateScale >= k
    BY <1>2 DEF CompletionGate, Gate
  <2>4. m * RateScale <= n * RateScale
    BY <2>1, <2>2, ScaledOrder, GatesAssumption
  <2>5. m * RateScale \in Nat /\ n * RateScale \in Nat
    BY <2>1, GatesAssumption
  <2>6. n * RateScale >= k
    <3> HIDE DEF m, n, k
    <3> QED
      BY <2>1, <2>3, <2>4, <2>5
  <2> QED
    BY <1>2, <2>6 DEF CompletionGate, Gate
<1> QED
  BY <1>1, <1>2

\* The gates one by one: each row of the better answer passes when the row of
\* the other one for the same criterion does.
LEMMA BetterVerdict ==
    ASSUME NEW p \in Policy, NEW q \in Result, NEW r \in Result,
           AtLeastAsGood(q, r), AllPassed(ComputeGates(p, r))
    PROVE  AllPassed(ComputeGates(p, q))
<1> SUFFICES ASSUME NEW g \in ComputeGates(p, q) PROVE g.passed
  BY DEF AllPassed
<1>1. ASSUME NEW d \in Thresholded(p),
             g = Gate("min_dimension_score", d,
                      q.scores[d] # None /\ q.scores[d] >= p.thresholds[d])
      PROVE  g.passed
  <2>1. d \in Dimension /\ p.thresholds[d] \in 0..MaxScore
    BY ThresholdType
  <2>2. r.scores[d] # None /\ r.scores[d] >= p.thresholds[d]
    <3> DEFINE h == Gate("min_dimension_score", d,
                         r.scores[d] # None /\ r.scores[d] >= p.thresholds[d])
    <3>1. h \in ComputeGates(p, r)
      BY DEF ComputeGates, ScoreGates
    <3>2. h.passed
      BY <3>1 DEF AllPassed
    <3> QED
      BY <3>2 DEF Gate
  <2>3. q.scores[d] # None /\ q.scores[d] >= r.scores[d]
    BY <2>1, <2>2 DEF AtLeastAsGood
  <2>4. r.scores[d] \in Nat /\ q.scores[d] \in Nat /\ p.thresholds[d] \in Nat
    BY <2>1, <2>2, <2>3, GatesAssumption DEF Result
  <2>5. q.scores[d] >= p.thresholds[d]
    BY <2>2, <2>3, <2>4
  <2> QED
    BY <1>1, <2>3, <2>5 DEF Gate
<1>2. ASSUME NEW e \in Required(p),
             g = Gate("required_evaluator_version", e,
                      q.submitted[e] = p.required[e])
      PROVE  g.passed
  <2>1. g \in ComputeGates(p, r)
    BY <1>2 DEF ComputeGates, EvaluatorGates, AtLeastAsGood
  <2> QED
    BY <2>1 DEF AllPassed
<1>3. ASSUME NEW i \in DOMAIN p.zeroTags,
             g = Gate("zero_failures_for_tag", i,
                        FailedWithTag(q, p.zeroTags[i]) = {})
      PROVE  g.passed
  <2>1. FailedWithTag(r, p.zeroTags[i]) = {}
    <3> DEFINE h == Gate("zero_failures_for_tag", i,
                         FailedWithTag(r, p.zeroTags[i]) = {})
    <3>1. h \in ComputeGates(p, r)
      BY DEF ComputeGates, TagGates
    <3>2. h.passed
      BY <3>1 DEF AllPassed
    <3> QED
      BY <3>2 DEF Gate
  <2>2. \A c \in Case : q.cases[c] = "error" => r.cases[c] = "error"
    BY DEF AtLeastAsGood, CasesOf, Successes, Result, CaseStatus
  <2>3. FailedWithTag(q, p.zeroTags[i]) = {}
    BY <2>1, <2>2 DEF FailedWithTag
  <2> QED
    BY <1>3, <2>3 DEF Gate
<1>4. ASSUME g = CompletionGate(p, q) PROVE g.passed
  <2>1. CompletionGate(p, r).passed
    BY DEF AllPassed, ComputeGates
  <2> QED
    BY <1>4, <2>1, CompletionIsMonotone DEF AtLeastAsGood
<1>5. ASSUME g = RegressionGate(p, q) PROVE g.passed
  <2>1. RegressionGate(p, r).passed
    BY DEF AllPassed, ComputeGates
  <2>2. r.regressions = None \/ r.regressions <= p.maxRegressions
    BY <2>1 DEF RegressionGate, Gate
  <2>3. \/ q.regressions = None
        \/ r.regressions # None /\ q.regressions <= r.regressions
    BY DEF AtLeastAsGood
  <2>4. q.regressions = None \/ q.regressions <= p.maxRegressions
    BY <2>2, <2>3, GatesAssumption DEF Result, Policy
  <2> QED
    BY <1>5, <2>4 DEF RegressionGate, Gate
<1>6. ASSUME g = SnapshotGate(q) PROVE g.passed
  <2>1. SnapshotGate(r).passed
    BY DEF AllPassed, ComputeGates
  <2>2. q.grantsKept
    BY <2>1 DEF SnapshotGate, Gate, AtLeastAsGood
  <2> QED
    BY <1>6, <2>2 DEF SnapshotGate, Gate
<1> QED
  BY <1>1, <1>2, <1>3, <1>4, <1>5, <1>6, RowKinds

\* An evaluation at least as good as a passing one, in every respect, passes:
\* the criteria of _evaluate_gates are not traded against each other.
THEOREM BetterNeverFails == GatesSpec => BetterRunStillPasses
<1>1. ASSUME GatesInv, [GatesNext]_gatesVars,
             AtLeastAsGood(result', result), AllPassed(gates)
      PROVE  AllPassed(gates')
  <2>1. CASE GatesNext
    <3>1. policy \in Policy /\ result \in Result
      BY <1>1 DEF GatesInv, ValidPolicy
    <3>2. result' \in Result /\ gates' = ComputeGates(policy, result')
      BY <2>1, <3>1, JudgedType
    <3> QED
      BY <1>1, <3>1, <3>2, BetterVerdict DEF GatesInv
  <2>2. CASE UNCHANGED gatesVars
    BY <1>1, <2>2 DEF gatesVars, AllPassed
  <2> QED
    BY <1>1, <2>1, <2>2
<1>2. GatesInv /\ [GatesNext]_gatesVars
        => [AtLeastAsGood(result', result) /\ AllPassed(gates)
              => AllPassed(gates')]_gatesVars
  BY <1>1
<1> QED
  BY <1>2, GatesInvariance, PTL DEF GatesSpec, BetterRunStillPasses

-----------------------------------------------------------------------------
(* Nothing measured, nothing passed *)

\* Whatever a policy asks for besides, one threshold or a positive completion
\* rate keeps an answer in which nothing was measured from passing
\* (_evaluate_gates: a missing score fails, and an empty run has rate zero).
THEOREM NoFreePass == GatesSpec => []EmptyEvidenceNeverPasses
<1>1. ASSUME GatesInv, NothingMeasured(result),
             NEW d \in Thresholded(policy)
      PROVE  ~AllPassed(gates)
  <2> DEFINE h == Gate("min_dimension_score", d,
                       /\ result.scores[d] # None
                       /\ result.scores[d] >= policy.thresholds[d])
  <2>1. h \in gates
    BY <1>1 DEF GatesInv, ComputeGates, ScoreGates
  <2>2. ~h.passed
    BY <1>1 DEF NothingMeasured, Gate, Thresholded
  <2> QED
    BY <2>1, <2>2 DEF AllPassed
<1>2. ASSUME GatesInv, NothingMeasured(result), policy.minRate > 0
      PROVE  ~AllPassed(gates)
  <2>1. policy.minRate # 0
    BY <1>2, GatesAssumption DEF GatesInv, ValidPolicy, Policy
  <2>2. CompletionGate(policy, result) \in gates
    BY <1>2 DEF GatesInv, ComputeGates
  <2>3. ~CompletionGate(policy, result).passed
    BY <1>2, <2>1 DEF NothingMeasured, CompletionGate, Gate
  <2> QED
    BY <2>2, <2>3 DEF AllPassed
<1>3. GatesInv => EmptyEvidenceNeverPasses
  BY <1>1, <1>2 DEF EmptyEvidenceNeverPasses
<1> QED
  BY <1>3, GatesInvariance, PTL

-----------------------------------------------------------------------------
(* The verdict without its rows *)

\* What a policy demands of an answer.
Meets(p, r) ==
    /\ \A d \in Thresholded(p) :
          r.scores[d] # None /\ r.scores[d] >= p.thresholds[d]
    /\ \A e \in Required(p) : r.submitted[e] = p.required[e]
    /\ \A i \in DOMAIN p.zeroTags : FailedWithTag(r, p.zeroTags[i]) = {}
    /\ IF CasesOf(r) = {}
       THEN p.minRate = 0
       ELSE Cardinality(Successes(r)) * RateScale
               >= p.minRate * Cardinality(CasesOf(r))
    /\ r.regressions = None \/ r.regressions <= p.maxRegressions
    /\ r.grantsKept

\* All rows pass exactly when every demand is met.
LEMMA VerdictMeets ==
    ASSUME NEW p, NEW r \in Result
    PROVE  AllPassed(ComputeGates(p, r)) <=> Meets(p, r)
<1>0. r.grantsKept \in BOOLEAN
  BY DEF Result
<1>1. ASSUME Meets(p, r), NEW g \in ComputeGates(p, r) PROVE g.passed
  <2>1. ASSUME NEW d \in Thresholded(p),
               g = Gate("min_dimension_score", d,
                        r.scores[d] # None /\ r.scores[d] >= p.thresholds[d])
        PROVE  g.passed
    <3>1. r.scores[d] # None /\ r.scores[d] >= p.thresholds[d]
      BY <1>1 DEF Meets
    <3> QED
      BY <2>1, <3>1 DEF Gate
  <2>2. ASSUME NEW e \in Required(p),
               g = Gate("required_evaluator_version", e,
                        r.submitted[e] = p.required[e])
        PROVE  g.passed
    <3>1. r.submitted[e] = p.required[e]
      BY <1>1 DEF Meets
    <3> QED
      BY <2>2, <3>1 DEF Gate
  <2>3. ASSUME NEW i \in DOMAIN p.zeroTags,
               g = Gate("zero_failures_for_tag", i,
                        FailedWithTag(r, p.zeroTags[i]) = {})
        PROVE  g.passed
    <3>1. FailedWithTag(r, p.zeroTags[i]) = {}
      BY <1>1 DEF Meets
    <3> QED
      BY <2>3, <3>1 DEF Gate
  <2>4. CASE g = CompletionGate(p, r)
    BY <1>1, <2>4 DEF CompletionGate, Meets, Gate
  <2>5. CASE g = RegressionGate(p, r)
    BY <1>1, <2>5 DEF RegressionGate, Meets, Gate
  <2>6. CASE g = SnapshotGate(r)
    BY <1>0, <1>1, <2>6 DEF SnapshotGate, Meets, Gate
  <2> QED
    BY <2>1, <2>2, <2>3, <2>4, <2>5, <2>6, RowKinds
<1>2. ASSUME AllPassed(ComputeGates(p, r)) PROVE Meets(p, r)
  <2>1. ASSUME NEW d \in Thresholded(p)
        PROVE  r.scores[d] # None /\ r.scores[d] >= p.thresholds[d]
    <3> DEFINE h == Gate("min_dimension_score", d,
                         r.scores[d] # None /\ r.scores[d] >= p.thresholds[d])
    <3>1. h \in ComputeGates(p, r)
      BY DEF ComputeGates, ScoreGates
    <3>2. h.passed
      BY <1>2, <3>1 DEF AllPassed
    <3> QED
      BY <3>2 DEF Gate
  <2>2. ASSUME NEW e \in Required(p) PROVE r.submitted[e] = p.required[e]
    <3> DEFINE h == Gate("required_evaluator_version", e,
                         r.submitted[e] = p.required[e])
    <3>1. h \in ComputeGates(p, r)
      BY DEF ComputeGates, EvaluatorGates
    <3>2. h.passed
      BY <1>2, <3>1 DEF AllPassed
    <3> QED
      BY <3>2 DEF Gate
  <2>3. ASSUME NEW i \in DOMAIN p.zeroTags PROVE FailedWithTag(r, p.zeroTags[i]) = {}
    <3> DEFINE h == Gate("zero_failures_for_tag", i,
                         FailedWithTag(r, p.zeroTags[i]) = {})
    <3>1. h \in ComputeGates(p, r)
      BY DEF ComputeGates, TagGates
    <3>2. h.passed
      BY <1>2, <3>1 DEF AllPassed
    <3> QED
      BY <3>2 DEF Gate
  <2>4. CompletionGate(p, r).passed /\ RegressionGate(p, r).passed
           /\ SnapshotGate(r).passed
    BY <1>2 DEF AllPassed, ComputeGates
  <2> QED
    BY <2>1, <2>2, <2>3, <2>4
       DEF Meets, CompletionGate, RegressionGate, SnapshotGate, Gate
<1> QED
  BY <1>1, <1>2 DEF AllPassed

\* A version is evaluated exactly when every demand of the pinned policy is met:
\* what all_passed sums up is the conjunction, for any policy and any answer.
THEOREM VerdictIsTheCriteria ==
    GatesSpec => [](AllPassed(gates) <=> Meets(policy, result))
<1>1. GatesInv => (AllPassed(gates) <=> Meets(policy, result))
  BY VerdictMeets DEF GatesInv
<1> QED
  BY <1>1, GatesInvariance, PTL

\* What does pass on nothing: of the runs request_evaluation queues, those
\* whose policy names no threshold and no completion rate above zero.  The
\* gates of evaluators and tags are silent about an empty answer.
THEOREM EmptyAnswerVerdict ==
    ASSUME NEW p \in Policy, NEW r \in Result, NothingMeasured(r),
           \A e \in Required(p) : r.submitted[e] = p.required[e]
    PROVE  AllPassed(ComputeGates(p, r)) <=>
              /\ Thresholded(p) = {}
              /\ p.minRate = 0
              /\ r.regressions = None \/ r.regressions <= p.maxRegressions
              /\ r.grantsKept
<1>1. \A d \in Thresholded(p) : r.scores[d] = None
  BY DEF NothingMeasured, Thresholded
<1>2. CasesOf(r) = {}
  BY DEF NothingMeasured
<1>3. \A t : FailedWithTag(r, t) = {}
  BY <1>2 DEF FailedWithTag, CasesOf
<1>4. Meets(p, r) <=>
        /\ Thresholded(p) = {}
        /\ p.minRate = 0
        /\ r.regressions = None \/ r.regressions <= p.maxRegressions
        /\ r.grantsKept
  BY <1>1, <1>2, <1>3 DEF Meets
<1> QED
  BY <1>4, VerdictMeets

\* q demands at least what p demands.
Stricter(q, p) ==
    /\ \A d \in Thresholded(p) :
          d \in Thresholded(q) /\ q.thresholds[d] >= p.thresholds[d]
    /\ \A e \in Required(p) : q.required[e] = p.required[e]
    /\ \A i \in DOMAIN p.zeroTags :
          \E j \in DOMAIN q.zeroTags : q.zeroTags[j] = p.zeroTags[i]
    /\ q.minRate >= p.minRate
    /\ q.maxRegressions <= p.maxRegressions

\* Tightening a policy never lets an evaluation through that the looser policy
\* refused: no criterion of _evaluate_gates weakens another one.
THEOREM StricterNeverPassesMore ==
    ASSUME NEW p \in Policy, NEW q \in Policy, Stricter(q, p),
           NEW r \in Result, AllPassed(ComputeGates(q, r))
    PROVE  AllPassed(ComputeGates(p, r))
<1>1. Meets(q, r)
  BY VerdictMeets
<1>2. ASSUME NEW d \in Thresholded(p)
      PROVE  r.scores[d] # None /\ r.scores[d] >= p.thresholds[d]
  <2>1. d \in Thresholded(q) /\ q.thresholds[d] >= p.thresholds[d]
    BY DEF Stricter
  <2>2. r.scores[d] # None /\ r.scores[d] >= q.thresholds[d]
    BY <1>1, <2>1 DEF Meets
  <2>3. d \in Dimension /\ p.thresholds[d] \in Nat /\ q.thresholds[d] \in Nat
    BY <2>1, ThresholdType, GatesAssumption
  <2>4. r.scores[d] \in Nat
    BY <2>2, <2>3, GatesAssumption DEF Result
  <2> QED
    BY <2>1, <2>2, <2>3, <2>4
<1>3. ASSUME NEW e \in Required(p) PROVE r.submitted[e] = p.required[e]
  BY <1>1, GatesAssumption DEF Meets, Stricter, Required
<1>4. \A i \in DOMAIN p.zeroTags : FailedWithTag(r, p.zeroTags[i]) = {}
  BY <1>1 DEF Meets, Stricter
<1>5. IF CasesOf(r) = {}
      THEN p.minRate = 0
      ELSE Cardinality(Successes(r)) * RateScale
              >= p.minRate * Cardinality(CasesOf(r))
  <2> DEFINE m == Cardinality(Successes(r)) * RateScale
             n == Cardinality(CasesOf(r))
  <2>1. p.minRate \in Nat /\ q.minRate \in Nat /\ p.minRate <= q.minRate
    BY GatesAssumption DEF Policy, Stricter
  <2>2. m \in Nat /\ n \in Nat
    BY CountsAreNumbers, GatesAssumption
  <2>3. CASE CasesOf(r) = {}
    BY <1>1, <2>1, <2>3 DEF Meets
  <2>4. CASE CasesOf(r) # {}
    <3>1. m >= q.minRate * n
      BY <1>1, <2>4 DEF Meets
    <3>2. p.minRate * n <= q.minRate * n
      BY <2>1, <2>2, ScaledOrder
    <3>3. p.minRate * n \in Nat /\ q.minRate * n \in Nat
      BY <2>1, <2>2
    <3>4. m >= p.minRate * n
      <4> HIDE DEF m, n
      <4> QED
        BY <2>2, <3>1, <3>2, <3>3
    <3> QED
      BY <2>4, <3>4
  <2> QED
    BY <2>3, <2>4
<1>6. r.regressions = None \/ r.regressions <= p.maxRegressions
  BY <1>1, GatesAssumption DEF Meets, Stricter, Policy, Result
<1> QED
  BY <1>1, <1>2, <1>3, <1>4, <1>5, <1>6, VerdictMeets DEF Meets
=============================================================================
