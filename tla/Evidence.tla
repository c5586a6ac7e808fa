------------------------------ MODULE Evidence ------------------------------
(***************************************************************************)
(* What an evaluation's verdict depends on and what can drift underneath   *)
(* it: the capability grants of a version (services/capability_grants.py), *)
(* the evaluation policy that is current for the agent                     *)
(* (services/evaluation_policies.py), and two facts owned by the external  *)
(* agent-eval service, the live version of the required evaluator and the  *)
(* case set of the dataset.                                                *)
(*                                                                         *)
(* A hash of evidence is modelled by the value that is hashed: the         *)
(* capability snapshot of a version is its set of active grant rows.  A    *)
(* row is revoked for good, so a revoke followed by a new grant never      *)
(* restores an earlier snapshot, while a grant followed by its revocation  *)
(* does.                                                                   *)
(***************************************************************************)
EXTENDS Naturals, FiniteSets

CONSTANTS
    Version,           \* agent versions
    Grant,             \* agent_capability_grants rows that may ever exist
    GrantVersion,      \* the version each grant row belongs to
    MaxPolicy,         \* bound: policy versions published for the agent
    EvaluatorVersion,  \* versions of the required evaluator in agent-eval
    RequiredEvaluator, \* the evaluator version each policy requires
    DatasetVersion     \* case sets the evaluation dataset goes through

ASSUME EvidenceAssumption ==
    /\ GrantVersion \in [Grant -> Version]
    /\ MaxPolicy \in Nat \ {0}
    /\ RequiredEvaluator \in [1..MaxPolicy -> EvaluatorVersion]

VARIABLES
    grant,      \* grant[g]: the state of a capability grant row
    policy,     \* the newest published policy of the agent
    evaluator,  \* the live version of the required evaluator
    dataset     \* the live case set of the dataset

evidenceVars == <<grant, policy, evaluator, dataset>>

Policy == 1..MaxPolicy

GrantState == {"none", "active", "revoked"}

EvidenceTypeOK ==
    /\ grant \in [Grant -> GrantState]
    /\ policy \in Policy
    /\ evaluator \in EvaluatorVersion
    /\ dataset \in DatasetVersion

\* take_capability_grant_snapshot: the active grants of the version.
Snapshot(v) == {g \in Grant : GrantVersion[g] = v /\ grant[g] = "active"}

-----------------------------------------------------------------------------

\* The first policy of the agent has been seeded; nothing is granted yet.
EvidenceInit ==
    /\ grant = [g \in Grant |-> "none"]
    /\ policy = 1
    /\ evaluator = RequiredEvaluator[1]
    /\ dataset \in DatasetVersion

GrantCapability(g) ==
    /\ grant[g] = "none"
    /\ grant' = [grant EXCEPT ![g] = "active"]
    /\ UNCHANGED <<policy, evaluator, dataset>>

RevokeCapability(g) ==
    /\ grant[g] = "active"
    /\ grant' = [grant EXCEPT ![g] = "revoked"]
    /\ UNCHANGED <<policy, evaluator, dataset>>

\* A policy is never edited: publishing a newer one makes it current.
CreateEvaluationPolicy ==
    /\ policy < MaxPolicy
    /\ policy' = policy + 1
    /\ UNCHANGED <<grant, evaluator, dataset>>

\* agent-eval registers another version of the evaluator.
EvaluatorVersionChanges ==
    /\ evaluator' \in EvaluatorVersion \ {evaluator}
    /\ UNCHANGED <<grant, policy, dataset>>

\* Cases of the dataset are added, removed, renamed or re-tagged.
DatasetChanges ==
    /\ dataset' \in DatasetVersion \ {dataset}
    /\ UNCHANGED <<grant, policy, evaluator>>

EvidenceNext ==
    \/ \E g \in Grant : GrantCapability(g) \/ RevokeCapability(g)
    \/ CreateEvaluationPolicy
    \/ EvaluatorVersionChanges
    \/ DatasetChanges
=============================================================================
