----------------------------- MODULE SkillReview -----------------------------
(***************************************************************************)
(* The lifecycle of skill versions: create_skill_version                   *)
(* (services/skills.py), request_skill_review, approve_skill_review and    *)
(* reject_skill_review (services/skill_reviews.py).                        *)
(*                                                                         *)
(* A decision holds the advisory lock of the skill from its first read to  *)
(* its commit; filing a request takes no lock, reads first and inserts     *)
(* later.  Unlike promotion requests, pending reviews have no partial      *)
(* unique index (migrations 0014 and 0019): the insert always succeeds.    *)
(***************************************************************************)
EXTENDS Naturals, FiniteSets

CONSTANTS
    Skill,           \* skills
    Version,         \* versions of skills
    VersionSkill,    \* the skill of each version
    User,            \* human users
    Reviewer,        \* users whose role may decide a review
    Review,          \* review requests
    ReviewVersion,   \* the version each request is about
    ReviewRequester, \* the user who files it
    Call,            \* concurrent calls of approve and reject
    NoCall,          \* the lock is free
    NoReview,        \* a call that is not running
    NoVersion        \* a skill without a recommended version

ASSUME SkillAssumption ==
    /\ VersionSkill \in [Version -> Skill]
    /\ Reviewer \subseteq User
    /\ ReviewVersion \in [Review -> Version]
    /\ ReviewRequester \in [Review -> User]
    /\ NoCall \notin Call
    /\ NoReview \notin Review
    /\ NoVersion \notin Version

VARIABLES
    stage,     \* stage[v]: skill_version_lifecycle.stage
    status,    \* status[r]: skill_review_requests.status
    filing,    \* filing[r]: the handler of request_skill_review
    call,      \* call[c]: a handler of approve or reject_skill_review
    lock,      \* lock[s]: the call holding the advisory lock of the skill
    decisions  \* skill_review_decisions rows

skillVars == <<stage, status, filing, call, lock, decisions>>

-----------------------------------------------------------------------------
SkillStage == {"absent", "PUBLISHED", "RECOMMENDED", "DEPRECATED"}

ReviewableStages == {"PUBLISHED", "DEPRECATED"}

\* prod: the recommended version the call found, at most one.
CallState ==
    [pc : {"idle", "approving", "rejecting"},
     review : Review \cup {NoReview},
     prod : SUBSET Version]

IdleCall == [pc |-> "idle", review |-> NoReview, prod |-> {}]

\* A row of the decision table, which is unique in the review: equal decisions
\* of one review would not be two rows.
Decision == [review : Review, verdict : {"APPROVE", "REJECT"}]

SkillTypeOK ==
    /\ stage \in [Version -> SkillStage]
    /\ status \in [Review -> {"absent", "PENDING", "APPROVED", "REJECTED"}]
    /\ filing \in [Review -> {"idle", "reading", "done"}]
    /\ call \in [Call -> CallState]
    /\ lock \in [Skill -> Call \cup {NoCall}]
    /\ decisions \subseteq Decision

SkillInit ==
    /\ stage = [v \in Version |-> "absent"]
    /\ status = [r \in Review |-> "absent"]
    /\ filing = [r \in Review |-> "idle"]
    /\ call = [c \in Call |-> IdleCall]
    /\ lock = [s \in Skill |-> NoCall]
    /\ decisions = {}

-----------------------------------------------------------------------------
\* A version is published the moment it is created.
CreateSkillVersion(v) ==
    /\ stage[v] = "absent"
    /\ stage' = [stage EXCEPT ![v] = "PUBLISHED"]
    /\ UNCHANGED <<status, filing, call, lock, decisions>>

HasPending(v) == \E r \in Review : ReviewVersion[r] = v /\ status[r] = "PENDING"

\* request_skill_review once the stage is accepted.
StartFiling(r) ==
    /\ filing[r] = "idle"
    /\ ~HasPending(ReviewVersion[r])
    /\ filing' = [filing EXCEPT ![r] = "reading"]
    /\ UNCHANGED <<stage, status, call, lock, decisions>>

\* request_skill_review: the checks, and some time later the insert.
BeginFiling(r) ==
    /\ stage[ReviewVersion[r]] \in ReviewableStages
    /\ StartFiling(r)

CommitFiling(r) ==
    /\ filing[r] = "reading"
    /\ filing' = [filing EXCEPT ![r] = "done"]
    /\ status' = [status EXCEPT ![r] = "PENDING"]
    /\ UNCHANGED <<stage, call, lock, decisions>>

\* The handler dies before its commit.
AbandonFiling(r) ==
    /\ filing[r] = "reading"
    /\ filing' = [filing EXCEPT ![r] = "done"]
    /\ UNCHANGED <<stage, status, call, lock, decisions>>

-----------------------------------------------------------------------------
SkillOf(r) == VersionSkill[ReviewVersion[r]]

\* can_decide_skill_review: some reviewer other than the requester.
MayBeDecided(r) == \E u \in Reviewer : u # ReviewRequester[r]

\* Mutant: no advisory lock is taken before the decision.
PendingUnlocked(r) == MayBeDecided(r) /\ status[r] = "PENDING"

\* Mutant: the request is not read again once the lock is granted.
LockUnchecked(r) ==
    /\ MayBeDecided(r)
    /\ lock[SkillOf(r)] = NoCall
    /\ status[r] # "absent"

\* The lock is granted and the request, read again under it, is pending.
LockPending(r) ==
    /\ MayBeDecided(r)
    /\ lock[SkillOf(r)] = NoCall
    /\ status[r] = "PENDING"

\* Mutant: the current version is looked up among the published ones as well.
RecommendedOrPublished(s) ==
    {v \in Version :
       VersionSkill[v] = s /\ stage[v] \in {"RECOMMENDED", "PUBLISHED"}}

\* _get_current_recommended_lifecycle, as a set.
Recommended(s) ==
    {v \in Version : VersionSkill[v] = s /\ stage[v] = "RECOMMENDED"}

\* approve_skill_review once the stage is accepted: the current recommended
\* version is read under the lock.
StartApproval(c, r) ==
    /\ call[c].pc = "idle"
    /\ LockPending(r)
    /\ lock' = [lock EXCEPT ![SkillOf(r)] = c]
    /\ call' = [call EXCEPT ![c] = [pc |-> "approving", review |-> r,
                                    prod |-> Recommended(SkillOf(r))]]
    /\ UNCHANGED <<stage, status, filing, decisions>>

BeginApproval(c, r) ==
    /\ stage[ReviewVersion[r]] \in ReviewableStages
    /\ StartApproval(c, r)

Release(c) ==
    /\ lock' = [lock EXCEPT ![SkillOf(call[c].review)] = NoCall]
    /\ call' = [call EXCEPT ![c] = IdleCall]

\* Mutant: the previous recommended version is withdrawn, not deprecated.
CommitApprovalUnpublishing(c) ==
    LET r == call[c].review IN
    /\ call[c].pc = "approving"
    /\ stage' = [v \in Version |->
                   CASE v = ReviewVersion[r] -> "RECOMMENDED"
                     [] v \in call[c].prod \ {ReviewVersion[r]} -> "WITHDRAWN"
                     [] OTHER -> stage[v]]
    /\ status' = [status EXCEPT ![r] = "APPROVED"]
    /\ decisions' = decisions \cup {[review |-> r, verdict |-> "APPROVE"]}
    /\ Release(c)
    /\ UNCHANGED filing

CommitApproval(c) ==
    LET r == call[c].review IN
    /\ call[c].pc = "approving"
    /\ stage' = [v \in Version |->
                   CASE v = ReviewVersion[r] -> "RECOMMENDED"
                     [] v \in call[c].prod \ {ReviewVersion[r]} -> "DEPRECATED"
                     [] OTHER -> stage[v]]
    /\ status' = [status EXCEPT ![r] = "APPROVED"]
    /\ decisions' = decisions \cup {[review |-> r, verdict |-> "APPROVE"]}
    /\ Release(c)
    /\ UNCHANGED filing

BeginRejection(c, r) ==
    /\ call[c].pc = "idle"
    /\ LockPending(r)
    /\ lock' = [lock EXCEPT ![SkillOf(r)] = c]
    /\ call' = [call EXCEPT
                  ![c] = [pc |-> "rejecting", review |-> r, prod |-> {}]]
    /\ UNCHANGED <<stage, status, filing, decisions>>

CommitRejection(c) ==
    LET r == call[c].review IN
    /\ call[c].pc = "rejecting"
    /\ status' = [status EXCEPT ![r] = "REJECTED"]
    /\ decisions' = decisions \cup {[review |-> r, verdict |-> "REJECT"]}
    /\ Release(c)
    /\ UNCHANGED <<stage, filing>>

\* The handler dies: its transaction is rolled back and frees the lock.
AbandonCall(c) ==
    /\ call[c].pc # "idle"
    /\ Release(c)
    /\ UNCHANGED <<stage, status, filing, decisions>>

-----------------------------------------------------------------------------
SkillNext ==
    \/ \E v \in Version : CreateSkillVersion(v)
    \/ \E r \in Review : BeginFiling(r) \/ CommitFiling(r) \/ AbandonFiling(r)
    \/ \E c \in Call, r \in Review : BeginApproval(c, r) \/ BeginRejection(c, r)
    \/ \E c \in Call : CommitApproval(c) \/ CommitRejection(c) \/ AbandonCall(c)

SkillSpec == SkillInit /\ [][SkillNext]_skillVars

-----------------------------------------------------------------------------
(* Properties *)

\* At most one version of a skill is recommended, however many approvals and
\* rollbacks interleave (approve_skill_review).
OneRecommended ==
    \A v, w \in Version :
        /\ VersionSkill[v] = VersionSkill[w]
        /\ stage[v] = "RECOMMENDED"
        /\ stage[w] = "RECOMMENDED"
        => v = w

\* A review is decided once, the way its status says.
DecidedOnce ==
    \A r \in Review :
        {d.verdict : d \in {x \in decisions : x.review = r}} =
            CASE status[r] = "APPROVED" -> {"APPROVE"}
              [] status[r] = "REJECTED" -> {"REJECT"}
              [] OTHER -> {}

\* A deprecated version was recommended before, on a review of its own that
\* was approved: no other path leads there.
DeprecatedWasApproved ==
    \A v \in Version :
        stage[v] \in {"RECOMMENDED", "DEPRECATED"}
            => \E r \in Review : ReviewVersion[r] = v /\ status[r] = "APPROVED"

\* The promise of RecommendedSlot, with the stages read as the slot.
RecommendedVersion(s) ==
    IF Recommended(s) = {} THEN NoVersion ELSE CHOOSE v \in Recommended(s) : TRUE

Slot == INSTANCE RecommendedSlot WITH
    Owner <- Skill,
    VersionOwner <- VersionSkill,
    Request <- Review,
    RequestVersion <- ReviewVersion,
    slot <- [s \in Skill |-> RecommendedVersion(s)]

\* The recommended version of a skill changes only by an approval of a pending
\* review of another version, and a review is decided once.
ImplementsSlot == Slot!SlotSpec

\* Stated by request_skill_review itself ("already has a pending review request
\* (created concurrently)") and by docs/api-reference.md.
OnePendingReview ==
    \A r, q \in Review :
        /\ ReviewVersion[r] = ReviewVersion[q]
        /\ status[r] = "PENDING"
        /\ status[q] = "PENDING"
        => r = q
=============================================================================
