--------------------------- MODULE OrionSeed_proofs ---------------------------
(***************************************************************************)
(* Proofs about skill reviews, the views of who is behind, and the seed    *)
(* script.                                                                 *)
(*                                                                         *)
(* The script lets the review services act on a stage it read earlier, so  *)
(* it does not implement SkillSpec.  Both are steps of LooseStep, which    *)
(* never looks at the stage of the version under review: the invariants of *)
(* the reviews do not rest on that look.  The refinement of                *)
(* RecommendedSlot does, and is proved of SkillSpec only.                  *)
(***************************************************************************)
EXTENDS OrionSeed, TLAPS

-----------------------------------------------------------------------------
(* Reviews without a look at the stage *)

LooseStep ==
    \/ \E v \in Version : CreateSkillVersion(v)
    \/ \E r \in Review : StartFiling(r) \/ CommitFiling(r) \/ AbandonFiling(r)
    \/ \E c \in Call, r \in Review : StartApproval(c, r) \/ BeginRejection(c, r)
    \/ \E c \in Call : CommitApproval(c) \/ CommitRejection(c) \/ AbandonCall(c)

WasApproved(v) ==
    \E r \in Review : ReviewVersion[r] = v /\ status[r] = "APPROVED"

\* A handler of request_skill_review inserts its request once.
FiledOnce == \A r \in Review : filing[r] # "done" => status[r] = "absent"

\* A decision under way holds the lock of its skill on a pending review.
CallHoldsLock ==
    \A c \in Call :
        call[c].pc # "idle" =>
            /\ call[c].review \in Review
            /\ lock[SkillOf(call[c].review)] = c
            /\ status[call[c].review] = "PENDING"

\* What an approval found recommended is all there is until it commits, and had
\* been approved.
ApprovalSeesSlot ==
    \A c \in Call :
        call[c].pc = "approving" =>
            /\ Recommended(SkillOf(call[c].review)) \subseteq call[c].prod
            /\ \A v \in call[c].prod :
                  WasApproved(v) /\ VersionSkill[v] = SkillOf(call[c].review)

SkillInv ==
    /\ SkillTypeOK
    /\ FiledOnce
    /\ CallHoldsLock
    /\ ApprovalSeesSlot
    /\ OneRecommended
    /\ DecidedOnce
    /\ DeprecatedWasApproved

\* It holds initially.
LEMMA SkillInitInv == SkillInit => SkillInv
<1> SUFFICES ASSUME SkillInit PROVE SkillInv
  OBVIOUS
<1>1. IdleCall \in CallState
  BY DEF IdleCall, CallState
<1>2. SkillTypeOK
  BY <1>1 DEF SkillInit, SkillTypeOK, SkillStage
<1>3. FiledOnce /\ CallHoldsLock /\ ApprovalSeesSlot
  BY DEF SkillInit, FiledOnce, CallHoldsLock, ApprovalSeesSlot, IdleCall
<1>4. OneRecommended /\ DeprecatedWasApproved
  BY DEF SkillInit, OneRecommended, DeprecatedWasApproved
<1>5. DecidedOnce
  BY DEF SkillInit, DecidedOnce
<1> QED
  BY <1>2, <1>3, <1>4, <1>5 DEF SkillInv

\* A skill of a review is a skill.
LEMMA SkillOfType ==
    \A r \in Review : ReviewVersion[r] \in Version /\ SkillOf(r) \in Skill
BY SkillAssumption DEF SkillOf

\* The fields of a running call.
LEMMA RunningCall ==
    ASSUME SkillInv, NEW c \in Call, call[c].pc # "idle"
    PROVE  /\ call[c].review \in Review
           /\ call[c].prod \subseteq Version
           /\ lock[SkillOf(call[c].review)] = c
           /\ status[call[c].review] = "PENDING"
           /\ filing[call[c].review] = "done"
BY DEF SkillInv, SkillTypeOK, CallState, CallHoldsLock, FiledOnce

\* Creating a version recommends nothing.
LEMMA CreateKeepsSkillInv ==
    ASSUME SkillInv, NEW v \in Version, CreateSkillVersion(v)
    PROVE  SkillInv'
<1> USE DEF SkillInv
<1>1. /\ stage \in [Version -> SkillStage]
      /\ stage' = [stage EXCEPT ![v] = "PUBLISHED"]
      /\ UNCHANGED <<status, filing, call, lock, decisions>>
  BY DEF CreateSkillVersion, SkillTypeOK
<1>2. SkillTypeOK'
  BY <1>1 DEF SkillTypeOK, SkillStage
<1>3. \A s : Recommended(s)' \subseteq Recommended(s)
  BY <1>1 DEF Recommended
<1>4. FiledOnce' /\ CallHoldsLock' /\ DecidedOnce'
  BY <1>1 DEF FiledOnce, CallHoldsLock, DecidedOnce
<1>5. ApprovalSeesSlot'
  BY <1>1, <1>3 DEF ApprovalSeesSlot, WasApproved
<1>6. OneRecommended' /\ DeprecatedWasApproved'
  BY <1>1 DEF OneRecommended, DeprecatedWasApproved
<1> QED
  BY <1>2, <1>4, <1>5, <1>6

\* Nor does a step of request_skill_review.
LEMMA FilingKeepsSkillInv ==
    ASSUME SkillInv, NEW r \in Review,
           StartFiling(r) \/ CommitFiling(r) \/ AbandonFiling(r)
    PROVE  SkillInv'
<1> USE DEF SkillInv
<1>1. /\ UNCHANGED <<stage, call, lock, decisions>>
      /\ status \in [Review -> {"absent", "PENDING", "APPROVED", "REJECTED"}]
      /\ filing \in [Review -> {"idle", "reading", "done"}]
      /\ status[r] = "absent"
  BY DEF StartFiling, CommitFiling, AbandonFiling, SkillTypeOK, FiledOnce
<1>2. \/ status' = status /\ filing' \in {[filing EXCEPT ![r] = "reading"],
                                         [filing EXCEPT ![r] = "done"]}
      \/ /\ status' = [status EXCEPT ![r] = "PENDING"]
         /\ filing' = [filing EXCEPT ![r] = "done"]
  BY DEF StartFiling, CommitFiling, AbandonFiling
<1>3. SkillTypeOK' /\ FiledOnce'
  BY <1>1, <1>2 DEF SkillTypeOK, FiledOnce
<1>4. \A q \in Review : status[q] # "absent" => status'[q] = status[q]
  BY <1>1, <1>2
<1>5. CallHoldsLock'
  BY <1>1, <1>4 DEF CallHoldsLock
<1>6. ApprovalSeesSlot' /\ OneRecommended' /\ DeprecatedWasApproved'
  BY <1>1, <1>4
     DEF ApprovalSeesSlot, WasApproved, Recommended, OneRecommended,
         DeprecatedWasApproved
<1>7. DecidedOnce'
  <2> SUFFICES ASSUME NEW q \in Review
               PROVE  {d.verdict : d \in {x \in decisions : x.review = q}} =
                         CASE status'[q] = "APPROVED" -> {"APPROVE"}
                           [] status'[q] = "REJECTED" -> {"REJECT"}
                           [] OTHER -> {}
    BY <1>1 DEF DecidedOnce
  <2>1. \/ status'[q] = status[q]
        \/ status[q] = "absent" /\ status'[q] = "PENDING"
    BY <1>1, <1>2
  <2> QED
    BY <2>1 DEF DecidedOnce
<1> QED
  BY <1>3, <1>5, <1>6, <1>7

\* Taking the lock: what is recommended was approved.
LEMMA BeginKeepsSkillInv ==
    ASSUME SkillInv, NEW c \in Call, NEW r \in Review,
           StartApproval(c, r) \/ BeginRejection(c, r)
    PROVE  SkillInv'
<1> USE DEF SkillInv
<1>1. /\ UNCHANGED <<stage, status, filing, decisions>>
      /\ lock[SkillOf(r)] = NoCall /\ status[r] = "PENDING"
      /\ lock' = [lock EXCEPT ![SkillOf(r)] = c]
      /\ lock \in [Skill -> Call \cup {NoCall}]
      /\ call \in [Call -> CallState]
  BY DEF StartApproval, BeginRejection, LockPending, SkillTypeOK
<1>2. PICK x \in CallState :
         /\ x.review = r
         /\ x.pc = "approving" => x.prod = Recommended(SkillOf(r))
         /\ call' = [call EXCEPT ![c] = x]
  <2>1. CASE StartApproval(c, r)
    <3>1. [pc |-> "approving", review |-> r, prod |-> Recommended(SkillOf(r))]
             \in CallState
      BY DEF CallState, Recommended
    <3> QED
      BY <2>1, <3>1 DEF StartApproval
  <2>2. CASE BeginRejection(c, r)
    <3>1. [pc |-> "rejecting", review |-> r, prod |-> {}] \in CallState
      BY DEF CallState
    <3> QED
      BY <2>2, <3>1 DEF BeginRejection
  <2> QED
    BY <2>1, <2>2
<1>3. SkillTypeOK'
  BY <1>1, <1>2 DEF SkillTypeOK
<1>4. FiledOnce' /\ OneRecommended' /\ DecidedOnce' /\ DeprecatedWasApproved'
  BY <1>1 DEF FiledOnce, OneRecommended, DecidedOnce, DeprecatedWasApproved
<1>5. CallHoldsLock'
  <2> SUFFICES ASSUME NEW d \in Call, call'[d].pc # "idle"
               PROVE  /\ call'[d].review \in Review
                      /\ lock'[SkillOf(call'[d].review)] = d
                      /\ status[call'[d].review] = "PENDING"
    BY <1>1 DEF CallHoldsLock, SkillOf
  <2>1. CASE d = c
    BY <1>1, <1>2, <2>1, SkillOfType
  <2>2. CASE d # c
    BY <1>1, <1>2, <2>2, SkillOfType, SkillAssumption DEF CallHoldsLock
  <2> QED
    BY <2>1, <2>2
<1>6. ApprovalSeesSlot'
  <2> SUFFICES ASSUME NEW d \in Call, call'[d].pc = "approving"
               PROVE  /\ Recommended(SkillOf(call'[d].review)) \subseteq call'[d].prod
                      /\ \A v \in call'[d].prod :
                            /\ WasApproved(v)
                            /\ VersionSkill[v] = SkillOf(call'[d].review)
    BY <1>1 DEF ApprovalSeesSlot, Recommended, SkillOf, WasApproved
  <2>1. \A v \in Recommended(SkillOf(r)) :
           WasApproved(v) /\ VersionSkill[v] = SkillOf(r)
    BY DEF Recommended, DeprecatedWasApproved, WasApproved
  <2>2. CASE d = c
    BY <1>1, <1>2, <2>1, <2>2
  <2>3. CASE d # c
    BY <1>1, <1>2, <2>3 DEF ApprovalSeesSlot
  <2> QED
    BY <2>2, <2>3
<1> QED
  BY <1>3, <1>4, <1>5, <1>6

\* After a release no other call is disturbed: it holds another lock, on another
\* review.
LEMMA ReleaseKeepsOthers ==
    ASSUME SkillInv, NEW c \in Call, call[c].pc # "idle", Release(c)
    PROVE  /\ call' \in [Call -> CallState]
           /\ lock' \in [Skill -> Call \cup {NoCall}]
           /\ \A d \in Call : call'[d].pc # "idle" =>
                 /\ d # c /\ call'[d] = call[d]
                 /\ call[d].review \in Review
                 /\ call[d].review # call[c].review
                 /\ SkillOf(call[d].review) # SkillOf(call[c].review)
                 /\ lock'[SkillOf(call[d].review)] = d
                 /\ status[call[d].review] = "PENDING"
<1>0. call \in [Call -> CallState] /\ lock \in [Skill -> Call \cup {NoCall}]
  BY DEF SkillInv, SkillTypeOK
<1>1. IdleCall \in CallState /\ IdleCall.pc = "idle"
  BY DEF IdleCall, CallState
<1>2. ASSUME NEW d \in Call, call'[d].pc # "idle"
      PROVE  d # c /\ call'[d] = call[d]
  BY <1>0, <1>1, <1>2 DEF Release
<1>3. ASSUME NEW d \in Call, d # c, call[d].pc # "idle"
      PROVE  SkillOf(call[d].review) # SkillOf(call[c].review)
  BY <1>3, RunningCall
<1> QED
  BY <1>0, <1>1, <1>2, <1>3, RunningCall, SkillOfType DEF Release

\* A decision adds its verdict to a review that had none.
LEMMA DecisionIsFirst ==
    ASSUME SkillInv, NEW c \in Call, call[c].pc # "idle",
           NEW s \in {"APPROVED", "REJECTED"},
           status' = [status EXCEPT ![call[c].review] = s],
           decisions' = decisions \cup
              {[review |-> call[c].review,
                verdict |-> IF s = "APPROVED" THEN "APPROVE" ELSE "REJECT"]}
    PROVE  DecidedOnce' /\ decisions' \subseteq Decision
<1> DEFINE r == call[c].review
           verdict == IF s = "APPROVED" THEN "APPROVE" ELSE "REJECT"
           new == [review |-> r, verdict |-> verdict]
           Of(q, D) == {x \in D : x.review = q}
<1>1. r \in Review /\ status[r] = "PENDING"
  BY RunningCall
<1>2. new \in Decision
  BY <1>1 DEF Decision
<1>3. status \in [Review -> {"absent", "PENDING", "APPROVED", "REJECTED"}]
  BY DEF SkillInv, SkillTypeOK
<1>4. {d.verdict : d \in Of(r, decisions)} = {}
  BY <1>1 DEF SkillInv, DecidedOnce
<1>5. Of(r, decisions') = {new}
  <2>1. Of(r, decisions) = {}
    BY <1>4
  <2> QED
    BY <2>1
<1>6. {d.verdict : d \in Of(r, decisions')} = {verdict}
  <2>1. new.verdict = verdict
    OBVIOUS
  <2> HIDE DEF new, verdict, Of
  <2> QED
    BY <1>5, <2>1
<1>7. ASSUME NEW q \in Review, q # r PROVE Of(q, decisions') = Of(q, decisions)
  BY <1>7
<1>8. ASSUME NEW q \in Review
      PROVE  {d.verdict : d \in Of(q, decisions')} =
                CASE status'[q] = "APPROVED" -> {"APPROVE"}
                  [] status'[q] = "REJECTED" -> {"REJECT"}
                  [] OTHER -> {}
  <2>1. CASE q = r
    BY <1>1, <1>3, <1>6, <2>1
  <2>2. CASE q # r
    <3>1. status'[q] = status[q]
      BY <1>3, <2>2
    <3> QED
      BY <1>7, <2>2, <3>1 DEF SkillInv, DecidedOnce
  <2> QED
    BY <2>1, <2>2
<1> QED
  BY <1>2, <1>8 DEF DecidedOnce, SkillInv, SkillTypeOK

\* A rejection or a call that dies leaves the stages alone.
LEMMA EndKeepsSkillInv ==
    ASSUME SkillInv, NEW c \in Call, CommitRejection(c) \/ AbandonCall(c)
    PROVE  SkillInv'
<1> USE DEF SkillInv
<1>1. /\ call[c].pc # "idle" /\ Release(c) /\ UNCHANGED <<stage, filing>>
  BY DEF CommitRejection, AbandonCall
<1>2. /\ \A q \in Review \ {call[c].review} : status'[q] = status[q]
      /\ \A q \in Review : status[q] = "APPROVED" => status'[q] = "APPROVED"
      /\ status' \in [Review -> {"absent", "PENDING", "APPROVED", "REJECTED"}]
      /\ filing[call[c].review] = "done"
  BY <1>1, RunningCall DEF CommitRejection, AbandonCall, SkillTypeOK
<1>3. DecidedOnce' /\ decisions' \subseteq Decision
  <2>1. CASE CommitRejection(c)
    BY <1>1, <2>1, DecisionIsFirst DEF CommitRejection
  <2>2. CASE AbandonCall(c)
    BY <2>2 DEF AbandonCall, DecidedOnce, SkillTypeOK
  <2> QED
    BY <2>1, <2>2
<1>4. SkillTypeOK'
  BY <1>1, <1>2, <1>3, ReleaseKeepsOthers DEF SkillTypeOK
<1>5. FiledOnce'
  BY <1>1, <1>2 DEF FiledOnce
<1>6. CallHoldsLock'
  BY <1>1, <1>2, ReleaseKeepsOthers DEF CallHoldsLock, SkillOf
<1>7. ApprovalSeesSlot'
  BY <1>1, <1>2, ReleaseKeepsOthers
     DEF ApprovalSeesSlot, Recommended, SkillOf, WasApproved
<1>8. OneRecommended' /\ DeprecatedWasApproved'
  BY <1>1, <1>2 DEF OneRecommended, DeprecatedWasApproved
<1> QED
  BY <1>3, <1>4, <1>5, <1>6, <1>7, <1>8

\* What an approval does to the stages: the version of its review is the only
\* recommended one of its skill, no other skill is touched, nothing goes back.
LEMMA ApprovalMovesSlot ==
    ASSUME SkillInv, NEW c \in Call, CommitApproval(c),
           NEW r \in Review, r = call[c].review
    PROVE  /\ stage' \in [Version -> SkillStage]
           /\ Recommended(SkillOf(r))' = {ReviewVersion[r]}
           /\ \A s \in Skill \ {SkillOf(r)} : Recommended(s)' \subseteq Recommended(s)
           /\ \A v \in Version : stage'[v] = "DEPRECATED" =>
                 stage[v] = "DEPRECATED" \/ v \in call[c].prod
           /\ \A v \in Version : stage'[v] = stage[v]
                                 \/ stage'[v] \in {"RECOMMENDED", "DEPRECATED"}
           /\ \A v \in Version : VersionSkill[v] # SkillOf(r) => stage'[v] = stage[v]
<1> USE DEF SkillInv
<1>1. PICK v \in Version : v = ReviewVersion[r] /\ SkillOf(r) = VersionSkill[v]
  BY SkillOfType DEF SkillOf
<1>2. /\ call[c].pc = "approving"
      /\ call[c].prod \subseteq Version
      /\ Recommended(VersionSkill[v]) \subseteq call[c].prod
      /\ \A x \in call[c].prod : VersionSkill[x] = VersionSkill[v]
  BY <1>1, RunningCall DEF CommitApproval, ApprovalSeesSlot
<1>3. /\ stage \in [Version -> SkillStage]
      /\ stage' = [x \in Version |->
                     CASE x = v -> "RECOMMENDED"
                       [] x \in call[c].prod \ {v} -> "DEPRECATED"
                       [] OTHER -> stage[x]]
  BY <1>1 DEF CommitApproval, SkillTypeOK
<1>4. /\ stage'[v] = "RECOMMENDED"
      /\ \A x \in call[c].prod \ {v} : stage'[x] = "DEPRECATED"
      /\ \A x \in Version \ (call[c].prod \cup {v}) : stage'[x] = stage[x]
  BY <1>2, <1>3
<1>5. stage' \in [Version -> SkillStage]
  BY <1>3 DEF SkillStage
<1>6. Recommended(VersionSkill[v])' = {v}
  <2>1. ASSUME NEW x \in Version, VersionSkill[x] = VersionSkill[v],
               stage'[x] = "RECOMMENDED"
        PROVE  x = v
    <3> SUFFICES ASSUME x # v PROVE FALSE
      OBVIOUS
    <3>1. x \notin call[c].prod
      BY <1>4, <2>1
    <3>2. stage[x] = "RECOMMENDED"
      BY <1>4, <2>1, <3>1
    <3> QED
      BY <1>2, <2>1, <3>1, <3>2 DEF Recommended
  <2> QED
    BY <1>4, <2>1 DEF Recommended
<1>7. ASSUME NEW s \in Skill, s # VersionSkill[v]
      PROVE  Recommended(s)' \subseteq Recommended(s)
  BY <1>2, <1>4, <1>7 DEF Recommended
<1>8. Recommended(SkillOf(r))' = {ReviewVersion[r]}
  BY <1>1, <1>6
<1> QED
  BY <1>1, <1>2, <1>4, <1>5, <1>7, <1>8

\* An approval replaces the recommended version it found by its own.
LEMMA ApprovalKeepsSkillInv ==
    ASSUME SkillInv, NEW c \in Call, CommitApproval(c)
    PROVE  SkillInv'
<1> USE DEF SkillInv
<1>0. PICK r \in Review : r = call[c].review
  BY RunningCall DEF CommitApproval
<1>1. /\ call[c].pc = "approving" /\ Release(c) /\ UNCHANGED filing
      /\ status' = [status EXCEPT ![r] = "APPROVED"]
      /\ decisions' = decisions \cup {[review |-> r, verdict |-> "APPROVE"]}
  BY <1>0 DEF CommitApproval
<1>2. /\ status[r] = "PENDING" /\ filing[r] = "done"
      /\ status \in [Review -> {"absent", "PENDING", "APPROVED", "REJECTED"}]
  BY <1>0, <1>1, RunningCall DEF SkillTypeOK
<1>3. /\ stage' \in [Version -> SkillStage]
      /\ Recommended(SkillOf(r))' = {ReviewVersion[r]}
      /\ \A s \in Skill \ {SkillOf(r)} : Recommended(s)' \subseteq Recommended(s)
      /\ \A v \in Version : stage'[v] = "DEPRECATED" =>
            stage[v] = "DEPRECATED" \/ v \in call[c].prod
  BY <1>0, ApprovalMovesSlot
<1>4. /\ \A q \in Review \ {r} : status'[q] = status[q]
      /\ status'[r] = "APPROVED"
      /\ status' \in [Review -> {"absent", "PENDING", "APPROVED", "REJECTED"}]
  BY <1>1, <1>2
<1>5. DecidedOnce' /\ decisions' \subseteq Decision
  BY <1>1, DecisionIsFirst, <1>0
<1>6. SkillTypeOK'
  BY <1>1, <1>3, <1>4, <1>5, ReleaseKeepsOthers DEF SkillTypeOK
<1>7. FiledOnce'
  BY <1>1, <1>2, <1>4 DEF FiledOnce
<1>8. CallHoldsLock'
  BY <1>0, <1>1, <1>4, ReleaseKeepsOthers DEF CallHoldsLock, SkillOf
<1>9. \A v : WasApproved(v) => WasApproved(v)'
  BY <1>2, <1>4 DEF WasApproved
<1>10. ApprovalSeesSlot'
  <2> SUFFICES ASSUME NEW d \in Call, call'[d].pc = "approving"
               PROVE  /\ Recommended(SkillOf(call[d].review))' \subseteq call[d].prod
                      /\ \A v \in call[d].prod :
                            /\ WasApproved(v)'
                            /\ VersionSkill[v] = SkillOf(call[d].review)
                      /\ call'[d] = call[d]
    BY DEF ApprovalSeesSlot, SkillOf
  <2>1. /\ call'[d] = call[d] /\ call[d].review \in Review
        /\ SkillOf(call[d].review) # SkillOf(r)
    BY <1>0, <1>1, ReleaseKeepsOthers
  <2>2. /\ Recommended(SkillOf(call[d].review)) \subseteq call[d].prod
        /\ \A v \in call[d].prod :
              WasApproved(v) /\ VersionSkill[v] = SkillOf(call[d].review)
    BY <2>1 DEF ApprovalSeesSlot
  <2>3. Recommended(SkillOf(call[d].review))'
           \subseteq Recommended(SkillOf(call[d].review))
    <3>1. SkillOf(call[d].review) \in Skill
      BY <2>1, SkillOfType
    <3>2. \A s \in Skill \ {SkillOf(r)} :
             {v \in Version : VersionSkill[v] = s /\ stage'[v] = "RECOMMENDED"}
                \subseteq Recommended(s)
      BY <1>3 DEF Recommended
    <3>3. call[d]' = call[d]
      BY <2>1
    <3> QED
      BY <2>1, <3>1, <3>2, <3>3 DEF Recommended, SkillOf
  <2> QED
    BY <1>9, <2>1, <2>2, <2>3
<1>11. OneRecommended'
  <2> SUFFICES ASSUME NEW v \in Version, NEW w \in Version,
                      VersionSkill[v] = VersionSkill[w],
                      stage'[v] = "RECOMMENDED", stage'[w] = "RECOMMENDED"
               PROVE  v = w
    BY DEF OneRecommended
  <2>1. VersionSkill[v] \in Skill
    BY SkillAssumption
  <2>2. /\ v \in {x \in Version : VersionSkill[x] = VersionSkill[v]
                                   /\ stage'[x] = "RECOMMENDED"}
        /\ w \in {x \in Version : VersionSkill[x] = VersionSkill[v]
                                   /\ stage'[x] = "RECOMMENDED"}
    OBVIOUS
  <2>3. CASE VersionSkill[v] = SkillOf(r)
    BY <1>3, <2>2, <2>3 DEF Recommended, SkillOf
  <2>4. CASE VersionSkill[v] # SkillOf(r)
    <3>1. stage[v] = "RECOMMENDED" /\ stage[w] = "RECOMMENDED"
      BY <1>3, <2>1, <2>2, <2>4 DEF Recommended
    <3> QED
      BY <3>1 DEF OneRecommended
  <2> QED
    BY <2>3, <2>4
<1>12. DeprecatedWasApproved'
  <2> SUFFICES ASSUME NEW v \in Version, stage'[v] \in {"RECOMMENDED", "DEPRECATED"}
               PROVE  WasApproved(v)'
    BY DEF DeprecatedWasApproved, WasApproved
  <2>1. CASE stage'[v] = "DEPRECATED"
    <3>1. WasApproved(v)
      BY <1>1, <1>3, <2>1
         DEF DeprecatedWasApproved, ApprovalSeesSlot, WasApproved
    <3> QED
      BY <1>9, <3>1
  <2>2. CASE stage'[v] = "RECOMMENDED"
    <3>1. VersionSkill[v] \in Skill
      BY SkillAssumption
    <3>2. CASE VersionSkill[v] = SkillOf(r)
      <4>1. v = ReviewVersion[r]
        BY <1>3, <2>2, <3>2 DEF Recommended, SkillOf
      <4> QED
        BY <1>2, <1>4, <4>1 DEF WasApproved
    <3>3. CASE VersionSkill[v] # SkillOf(r)
      <4>1. stage[v] = "RECOMMENDED"
        BY <1>3, <2>2, <3>1, <3>3 DEF Recommended
      <4>2. WasApproved(v)
        BY <4>1 DEF DeprecatedWasApproved, WasApproved
      <4> QED
        BY <1>9, <4>2
    <3> QED
      BY <3>2, <3>3
  <2> QED
    BY <2>1, <2>2
<1> QED
  BY <1>5, <1>6, <1>7, <1>8, <1>10, <1>11, <1>12

\* Every step keeps the invariant.
LEMMA LooseStepKeepsSkillInv ==
    SkillInv /\ (LooseStep \/ UNCHANGED skillVars) => SkillInv'
<1>1. ASSUME SkillInv, UNCHANGED skillVars PROVE SkillInv'
  <2> USE <1>1 DEF skillVars, SkillInv
  <2>1. SkillTypeOK' /\ FiledOnce' /\ DecidedOnce'
    BY DEF SkillTypeOK, FiledOnce, DecidedOnce
  <2>2. CallHoldsLock' /\ ApprovalSeesSlot'
    BY DEF CallHoldsLock, ApprovalSeesSlot, Recommended, WasApproved, SkillOf
  <2>3. OneRecommended' /\ DeprecatedWasApproved'
    BY DEF OneRecommended, DeprecatedWasApproved
  <2> QED
    BY <2>1, <2>2, <2>3
<1>2. ASSUME SkillInv, LooseStep PROVE SkillInv'
  BY <1>2, CreateKeepsSkillInv, FilingKeepsSkillInv, BeginKeepsSkillInv,
     EndKeepsSkillInv, ApprovalKeepsSkillInv
     DEF LooseStep
<1> QED
  BY <1>1, <1>2

-----------------------------------------------------------------------------
(* Reviews implement RecommendedSlot *)

\* A version that is being approved stays one to review: the lock of its skill
\* keeps every other approval away.
ApprovesReviewable ==
    \A c \in Call :
        call[c].pc = "approving"
            => stage[ReviewVersion[call[c].review]] \in ReviewableStages

\* The steps of the handlers are loose steps.
LEMMA SkillStepIsLoose == SkillNext => LooseStep
BY DEF SkillNext, LooseStep, BeginFiling, BeginApproval

\* The look at the stage is good until the commit.
LEMMA ReviewableStep ==
    ASSUME SkillInv, ApprovesReviewable, [SkillNext]_skillVars
    PROVE  ApprovesReviewable'
<1> USE DEF ApprovesReviewable
<1>0. call \in [Call -> CallState] /\ stage \in [Version -> SkillStage]
  BY DEF SkillInv, SkillTypeOK
<1>1. CASE UNCHANGED <<stage, call>>
  BY <1>1
<1>2. ASSUME NEW v \in Version, CreateSkillVersion(v) PROVE ApprovesReviewable'
  BY <1>0, <1>2 DEF CreateSkillVersion, ReviewableStages
<1>3. ASSUME NEW c \in Call, NEW r \in Review, BeginApproval(c, r)
      PROVE  ApprovesReviewable'
  BY <1>0, <1>3 DEF BeginApproval, StartApproval
<1>4. ASSUME NEW c \in Call, NEW r \in Review, BeginRejection(c, r)
      PROVE  ApprovesReviewable'
  BY <1>0, <1>4 DEF BeginRejection
<1>5. ASSUME NEW c \in Call, CommitRejection(c) \/ AbandonCall(c)
      PROVE  ApprovesReviewable'
  <2>1. call[c].pc # "idle" /\ Release(c) /\ UNCHANGED stage
    BY <1>5 DEF CommitRejection, AbandonCall
  <2> QED
    BY <2>1, ReleaseKeepsOthers
<1>6. ASSUME NEW c \in Call, CommitApproval(c) PROVE ApprovesReviewable'
  <2>1. PICK r \in Review : r = call[c].review
    BY <1>6, RunningCall DEF CommitApproval
  <2> SUFFICES ASSUME NEW d \in Call, call'[d].pc = "approving"
               PROVE  stage'[ReviewVersion[call'[d].review]] \in ReviewableStages
    OBVIOUS
  <2>2. /\ call'[d] = call[d] /\ call[d].review \in Review
        /\ SkillOf(call[d].review) # SkillOf(r)
    BY <1>6, <2>1, ReleaseKeepsOthers DEF CommitApproval
  <2>3. PICK v \in Version : v = ReviewVersion[call[d].review]
    BY <2>2, SkillOfType
  <2>4. VersionSkill[v] # SkillOf(r) /\ stage[v] \in ReviewableStages
    BY <2>2, <2>3 DEF SkillOf
  <2>5. stage'[v] = stage[v]
    BY <1>6, <2>1, <2>4, ApprovalMovesSlot
  <2> QED
    BY <2>2, <2>3, <2>4, <2>5
<1> QED
  BY <1>1, <1>2, <1>3, <1>4, <1>5, <1>6
     DEF SkillNext, BeginFiling, StartFiling, CommitFiling, AbandonFiling, skillVars

\* What the slot holds of a set of recommended versions.
HeldOf(S) == IF S = {} THEN NoVersion ELSE CHOOSE v \in S : TRUE

\* The one recommended version, if there is one.
LEMMA SlotHolds ==
    /\ \A s : RecommendedVersion(s) = HeldOf(Recommended(s))
    /\ \A v : HeldOf({v}) = v
    /\ HeldOf({}) = NoVersion
    /\ \A S : S # {} => HeldOf(S) \in S
BY DEF RecommendedVersion, HeldOf

\* The same in the next state.
LEMMA SlotHoldsNext ==
    \A s : RecommendedVersion(s)' = HeldOf(Recommended(s)')
BY DEF RecommendedVersion, HeldOf

\* A step of the handlers is a step of the slot or leaves it alone.
LEMMA SkillStepIsSlotStep ==
    ASSUME SkillInv, ApprovesReviewable, [SkillNext]_skillVars
    PROVE  [Slot!SlotNext]_(Slot!slotVars)
<1> DEFINE slot == [s \in Skill |-> RecommendedVersion(s)]
<1>0. /\ status \in [Review -> {"absent", "PENDING", "APPROVED", "REJECTED"}]
      /\ stage \in [Version -> SkillStage]
  BY DEF SkillInv, SkillTypeOK
<1>1. ASSUME \A s \in Skill : Recommended(s)' = Recommended(s)
      PROVE  slot' = slot
  BY <1>1, SlotHolds, SlotHoldsNext
<1>2. ASSUME UNCHANGED stage PROVE slot' = slot
  BY <1>1, <1>2 DEF Recommended
<1>3. CASE UNCHANGED <<stage, status>>
  BY <1>2, <1>3 DEF Slot!slotVars
<1>4. ASSUME NEW v \in Version, CreateSkillVersion(v)
      PROVE  UNCHANGED Slot!slotVars
  <2>1. \A s \in Skill : Recommended(s)' = Recommended(s)
    BY <1>0, <1>4 DEF CreateSkillVersion, Recommended
  <2> QED
    BY <1>1, <1>4, <2>1 DEF CreateSkillVersion, Slot!slotVars
<1>5. ASSUME NEW r \in Review, CommitFiling(r) PROVE Slot!SlotNext
  <2>1. Slot!File(r)
    BY <1>2, <1>5 DEF CommitFiling, Slot!File, SkillInv, FiledOnce
  <2> QED
    BY <2>1 DEF Slot!SlotNext
<1>6. ASSUME NEW c \in Call, CommitRejection(c) PROVE Slot!SlotNext
  <2>1. PICK r \in Review : r = call[c].review /\ status[r] = "PENDING"
    BY <1>6, RunningCall DEF CommitRejection
  <2>2. Slot!Reject(r)
    BY <1>2, <1>6, <2>1 DEF CommitRejection, Slot!Reject
  <2> QED
    BY <2>2 DEF Slot!SlotNext
<1>7. ASSUME NEW c \in Call, CommitApproval(c) PROVE Slot!SlotNext
  <2>1. PICK r \in Review : r = call[c].review /\ status[r] = "PENDING"
    BY <1>7, RunningCall DEF CommitApproval
  <2> DEFINE v == ReviewVersion[r]
             o == VersionSkill[v]
  <2>2. v \in Version /\ o \in Skill /\ SkillOf(r) = o
    BY SkillOfType DEF SkillOf
  <2>3. /\ Recommended(o)' = {v}
        /\ \A s \in Skill \ {o} : Recommended(s)' \subseteq Recommended(s)
        /\ \A x \in Version : VersionSkill[x] # o => stage'[x] = stage[x]
    BY <1>7, <2>1, <2>2, ApprovalMovesSlot
  <2>4. ASSUME NEW s \in Skill, s # o PROVE Recommended(s)' = Recommended(s)
    BY <2>3, <2>4 DEF Recommended
  <2>5. slot' = [slot EXCEPT ![o] = v]
    <3>1. RecommendedVersion(o)' = v
      BY <2>3, SlotHolds, SlotHoldsNext
    <3>2. \A s \in Skill \ {o} : RecommendedVersion(s)' = RecommendedVersion(s)
      BY <2>4, SlotHolds, SlotHoldsNext
    <3> QED
      BY <3>1, <3>2
  <2>6. slot[o] # v
    <3>1. stage[v] # "RECOMMENDED"
      BY <1>7, <2>1 DEF ApprovesReviewable, ReviewableStages, CommitApproval
    <3>2. v \notin Recommended(o)
      BY <3>1 DEF Recommended
    <3>3. RecommendedVersion(o) = NoVersion \/ RecommendedVersion(o) \in Recommended(o)
      BY SlotHolds
    <3> QED
      BY <2>2, <3>2, <3>3, SkillAssumption
  <2>7. status' = [status EXCEPT ![r] = "APPROVED"]
    BY <1>7, <2>1 DEF CommitApproval
  <2>8. Slot!Approve(r)
    BY <2>1, <2>5, <2>6, <2>7 DEF Slot!Approve
  <2> QED
    BY <2>8 DEF Slot!SlotNext
<1> QED
  BY <1>3, <1>4, <1>5, <1>6, <1>7
     DEF SkillNext, BeginFiling, StartFiling, AbandonFiling, BeginApproval,
         StartApproval, BeginRejection, AbandonCall, skillVars

\* The invariants of the reviews, with the look at the stage.
LEMMA SkillInvariance == SkillSpec => [](SkillInv /\ ApprovesReviewable)
<1>1. SkillInit => SkillInv /\ ApprovesReviewable
  BY SkillInitInv DEF SkillInit, ApprovesReviewable, IdleCall
<1>2. SkillInv /\ ApprovesReviewable /\ [SkillNext]_skillVars
         => (SkillInv /\ ApprovesReviewable)'
  BY SkillStepIsLoose, LooseStepKeepsSkillInv, ReviewableStep
<1> QED
  BY <1>1, <1>2, PTL DEF SkillSpec

\* Reviewing skills keeps the promise of RecommendedSlot, with any number of
\* versions, reviews and decisions at a time: the recommended version changes
\* only by the approval of a pending review of another one.
THEOREM SkillsImplementSlot == SkillSpec => ImplementsSlot
<1>1. SkillInit => Slot!SlotInit
  <2> SUFFICES ASSUME SkillInit PROVE Slot!SlotInit
    OBVIOUS
  <2>1. \A s \in Skill : Recommended(s) = {}
    BY DEF SkillInit, Recommended
  <2> QED
    BY <2>1, SlotHolds DEF SkillInit, Slot!SlotInit
<1>2. SkillInv /\ ApprovesReviewable /\ [SkillNext]_skillVars
         => [Slot!SlotNext]_(Slot!slotVars)
  BY SkillStepIsSlotStep
<1> QED
  BY <1>1, <1>2, SkillInvariance, PTL DEF SkillSpec, ImplementsSlot, Slot!SlotSpec

-----------------------------------------------------------------------------
(* The script beside people: its steps *)

\* A step of the script or of people is a loose step of the reviews or leaves
\* them alone.
LEMMA SeedStepIsLoose == [SeedNext]_allVars => LooseStep \/ UNCHANGED skillVars
<1> USE SeedAssumption
<1>1. ASSUME NEW r \in Run, SeedStep(r) PROVE LooseStep \/ UNCHANGED skillVars
  <2>1. RunReview[r] \in Review /\ RunCall[r] \in Call
    OBVIOUS
  <2>2. ASSUME CreateEntry(r) PROVE LooseStep \/ UNCHANGED skillVars
    BY <2>2
       DEF CreateEntry, CreateVersion, CreatePin, CreateRow, PublishSkillVersion,
           PublishAgentVersion, LooseStep, impactVars
  <2>3. ASSUME RequestReview(r) \/ FileReview(r) \/ ApproveReview(r) \/ FinishReview(r)
        PROVE  LooseStep
    BY <2>1, <2>3 DEF RequestReview, FileReview, ApproveReview, FinishReview, LooseStep
  <2>4. ASSUME Crash(r) PROVE LooseStep \/ UNCHANGED skillVars
    <3>1. \/ AbandonFiling(RunReview[r])
          \/ AbandonCall(RunCall[r])
          \/ UNCHANGED skillVars
      BY <2>4 DEF Crash
    <3> QED
      BY <2>1, <3>1 DEF LooseStep
  <2> QED
    BY <1>1, <2>2, <2>3, <2>4
       DEF SeedStep, StartRun, SkipEntry, MissEntry, TolerateConflict,
           FailOnConflict, SkipReview, WantReview, RefuseRequest, RefuseApproval,
           impactVars
<1>2. ASSUME PeopleStep PROVE LooseStep \/ UNCHANGED skillVars
  BY <1>2
     DEF PeopleStep, ReviewByPeople, PublishByPeople, PublishSkillVersion,
         PublishAgentVersion, RetireAgentVersion, RestoreAgentVersion,
         BeginFiling, BeginApproval, LooseStep, skillVars
<1> QED
  BY <1>1, <1>2 DEF SeedNext, allVars, impactVars

\* A stage never goes back to absent, and a version that was recommended stays
\* recommended or deprecated.
LEMMA StageForward ==
    ASSUME SkillInv, LooseStep \/ UNCHANGED skillVars, NEW v \in Version
    PROVE  /\ stage[v] # "absent" => stage'[v] # "absent"
           /\ stage[v] \in {"RECOMMENDED", "DEPRECATED"}
                 => stage'[v] \in {"RECOMMENDED", "DEPRECATED"}
<1>0. stage \in [Version -> SkillStage]
  BY DEF SkillInv, SkillTypeOK
<1>1. ASSUME NEW x \in Version, CreateSkillVersion(x)
      PROVE  stage'[v] = stage[v] \/ (stage[v] = "absent" /\ stage'[v] = "PUBLISHED")
  BY <1>0, <1>1 DEF CreateSkillVersion
<1>2. ASSUME NEW c \in Call, CommitApproval(c)
      PROVE  stage'[v] = stage[v] \/ stage'[v] \in {"RECOMMENDED", "DEPRECATED"}
  <2>1. PICK r \in Review : r = call[c].review
    BY <1>2, RunningCall DEF CommitApproval
  <2> QED
    BY <1>2, <2>1, ApprovalMovesSlot
<1>3. \/ stage' = stage
      \/ \E x \in Version : CreateSkillVersion(x)
      \/ \E c \in Call : CommitApproval(c)
  BY DEF LooseStep, StartFiling, CommitFiling, AbandonFiling, StartApproval,
         BeginRejection, CommitRejection, AbandonCall, skillVars
<1> QED
  BY <1>1, <1>2, <1>3

\* Skill versions are created once: no row of created is absent.
CreatedOnce == \A i \in DOMAIN created : stage[created[i]] # "absent"

\* Rows are only ever added; a version of an agent comes with its label.
LEMMA RowsGrow ==
    ASSUME [SeedNext]_allVars, SeedTypeOK
    PROVE  /\ rows \subseteq rows'
           /\ \/ UNCHANGED consumers /\ rows' \cap Agent \subseteq rows
              \/ \E x \in AgentVersion :
                    /\ consumers' = Append(consumers, x)
                    /\ rows' \subseteq rows \cup ({x.agent} \cap Entry)
                    /\ UNCHANGED retired
           /\ \/ UNCHANGED created
              \/ \E v \in Version :
                    CreateSkillVersion(v) /\ created' = Append(created, v)
<1> USE SeedAssumption
<1>1. ASSUME NEW r \in Run, CreateEntry(r)
      PROVE  /\ rows \subseteq rows'
             /\ \/ UNCHANGED consumers /\ rows' \cap Agent \subseteq rows
                \/ \E x \in AgentVersion :
                      /\ consumers' = Append(consumers, x)
                      /\ rows' \subseteq rows \cup ({x.agent} \cap Entry)
                      /\ UNCHANGED retired
             /\ \/ UNCHANGED created
                \/ \E v \in Version :
                      CreateSkillVersion(v) /\ created' = Append(created, v)
  <2>1. Current(r) \in Entry
    BY <1>1 DEF CreateEntry, AtEntry, Current, Entry
  <2>2. CASE CreateVersion(Current(r))
    BY <2>2 DEF CreateVersion, PublishSkillVersion
  <2>3. CASE CreateRow(Current(r))
    BY <2>3 DEF CreateRow, impactVars
  <2>4. CASE CreatePin(Current(r))
    <3>1. [agent |-> Current(r), pins |-> {Reviewed}] \in AgentVersion
      BY <2>4 DEF CreatePin, AgentVersion
    <3> QED
      BY <2>1, <2>4, <3>1 DEF CreatePin, PublishAgentVersion
  <2> QED
    BY <1>1, <2>2, <2>3, <2>4 DEF CreateEntry
<1>2. ASSUME PublishByPeople
      PROVE  /\ rows \subseteq rows'
             /\ \E x \in AgentVersion :
                   /\ consumers' = Append(consumers, x)
                   /\ rows' \subseteq rows \cup ({x.agent} \cap Entry)
                   /\ UNCHANGED retired
             /\ UNCHANGED created
  <2>1. PICK a \in Agent, pins \in Manifest :
           /\ PublishAgentVersion(a, pins)
           /\ rows' = rows \/ (a \in Entry \ rows /\ rows' = rows \cup {a})
    BY <1>2 DEF PublishByPeople
  <2>2. [agent |-> a, pins |-> pins] \in AgentVersion
    BY DEF AgentVersion
  <2> QED
    BY <2>1, <2>2 DEF PublishAgentVersion
<1>3. ASSUME PeopleStep, ~PublishByPeople
      PROVE  /\ UNCHANGED <<rows, consumers>>
             /\ \/ UNCHANGED created
                \/ \E v \in Version :
                      CreateSkillVersion(v) /\ created' = Append(created, v)
  BY <1>3
     DEF PeopleStep, PublishSkillVersion, RetireAgentVersion, RestoreAgentVersion
<1>4. ASSUME NEW r \in Run, SeedStep(r), ~CreateEntry(r)
      PROVE  UNCHANGED <<rows, consumers, created>>
  BY <1>4
     DEF SeedStep, StartRun, SkipEntry, MissEntry, TolerateConflict,
         FailOnConflict, SkipReview, WantReview, RequestReview, RefuseRequest,
         FileReview, ApproveReview, RefuseApproval, FinishReview, Crash,
         UnchangedButReview, impactVars
<1>5. CASE UNCHANGED allVars
  BY <1>5 DEF allVars, seedVars, impactVars
<1> QED
  BY <1>1, <1>2, <1>3, <1>4, <1>5 DEF SeedNext, PeopleStep

\* An agent that has a version, or one that pins the reviewed version, goes on
\* having it.
LEMMA VersionsStay ==
    ASSUME [SeedNext]_allVars, SeedTypeOK, NEW a
    PROVE  /\ HasVersion(a) => HasVersion(a)'
           /\ PinsReviewed(a) => PinsReviewed(a)'
<1>1. consumers \in Seq(AgentVersion)
  BY DEF SeedTypeOK, ImpactTypeOK
<1>2. CASE UNCHANGED consumers
  BY <1>2 DEF HasVersion, PinsReviewed
<1>3. ASSUME NEW x \in AgentVersion, consumers' = Append(consumers, x)
      PROVE  /\ HasVersion(a) => HasVersion(a)'
             /\ PinsReviewed(a) => PinsReviewed(a)'
  <2>1. \A i \in DOMAIN consumers : i \in DOMAIN consumers' /\ consumers'[i] = consumers[i]
    BY <1>1, <1>3
  <2> QED
    BY <2>1 DEF HasVersion, PinsReviewed
<1> QED
  BY <1>2, <1>3, RowsGrow

-----------------------------------------------------------------------------
(* Type correctness *)

\* The rows of the views keep their types.
LEMMA ImpactStepType ==
    SeedTypeOK /\ [SeedNext]_allVars => ImpactTypeOK'
<1> SUFFICES ASSUME SeedTypeOK, [SeedNext]_allVars PROVE ImpactTypeOK'
  OBVIOUS
<1>0. /\ \/ created' = created
         \/ \E v \in Version : created' = Append(created, v)
      /\ \/ consumers' = consumers
         \/ \E x \in AgentVersion : consumers' = Append(consumers, x)
  BY RowsGrow
<1> USE DEF SeedTypeOK, ImpactTypeOK
<1>1. created' \in Seq(Version)
  <2>1. ASSUME NEW v \in Version, created' = Append(created, v)
        PROVE  created' \in Seq(Version)
    BY <2>1
  <2> QED
    BY <1>0, <2>1
<1>2. consumers' \in Seq(AgentVersion) /\ DOMAIN consumers \subseteq DOMAIN consumers'
  <2>1. ASSUME NEW x \in AgentVersion, consumers' = Append(consumers, x)
        PROVE  /\ consumers' \in Seq(AgentVersion)
               /\ DOMAIN consumers \subseteq DOMAIN consumers'
    BY <2>1
  <2> QED
    BY <1>0, <2>1
<1>3. \/ UNCHANGED retired
      \/ \E i \in DOMAIN consumers : retired' \in {retired \cup {i}, retired \ {i}}
  <2>1. ASSUME NEW r \in Run, SeedStep(r) PROVE UNCHANGED retired
    BY <2>1
       DEF SeedStep, StartRun, SkipEntry, MissEntry, CreateEntry, CreateVersion,
           CreatePin, CreateRow, PublishSkillVersion, PublishAgentVersion,
           TolerateConflict, FailOnConflict, SkipReview, WantReview,
           RequestReview, RefuseRequest, FileReview, ApproveReview,
           RefuseApproval, FinishReview, Crash, UnchangedButReview, impactVars
  <2>2. ASSUME PeopleStep
        PROVE  \/ UNCHANGED retired
               \/ \E i \in DOMAIN consumers :
                     retired' \in {retired \cup {i}, retired \ {i}}
    BY <2>2
       DEF PeopleStep, PublishByPeople, PublishSkillVersion, PublishAgentVersion,
           RetireAgentVersion, RestoreAgentVersion
  <2> QED
    BY <2>1, <2>2 DEF SeedNext, allVars, impactVars
<1>4. retired' \subseteq DOMAIN consumers'
  BY <1>2, <1>3
<1> QED
  BY <1>1, <1>2, <1>4

\* So do the ones of the script.
LEMMA SeedVarsStepType ==
    SeedTypeOK /\ [SeedNext]_allVars =>
        /\ (rows \subseteq Entry \ Version)'
        /\ (pc \in [Run -> Ended \cup {"looking", "creating"} \cup Reviewing])'
        /\ (entry \in [Run -> 1..Len(Script) + 1])'
<1> SUFFICES ASSUME SeedTypeOK, [SeedNext]_allVars
             PROVE  /\ rows' \subseteq Entry \ Version
                    /\ pc' \in [Run -> Ended \cup {"looking", "creating"} \cup Reviewing]
                    /\ entry' \in [Run -> 1..Len(Script) + 1]
  BY DEF Entry, Ended, Reviewing
<1> USE SeedAssumption DEF SeedTypeOK
<1>0. Len(Script) \in Nat /\ DOMAIN Script = 1..Len(Script)
  OBVIOUS
<1>1. ASSUME NEW r \in Run, StartRun(r) \/ MissEntry(r) \/ FailOnConflict(r)
             \/ SkipReview(r) \/ WantReview(r) \/ RequestReview(r)
             \/ RefuseRequest(r) \/ FileReview(r) \/ ApproveReview(r)
             \/ RefuseApproval(r) \/ FinishReview(r) \/ Crash(r)
      PROVE  /\ UNCHANGED <<rows, entry>>
             /\ pc' \in [Run -> Ended \cup {"looking", "creating"} \cup Reviewing]
  BY <1>1
     DEF StartRun, MissEntry, FailOnConflict, SkipReview, WantReview,
         RequestReview, RefuseRequest, FileReview, ApproveReview,
         RefuseApproval, FinishReview, Crash, UnchangedButReview, Goto, Ended,
         Reviewing
<1>2. ASSUME NEW r \in Run, AtEntry(r, "looking") \/ AtEntry(r, "creating"), Advance(r)
      PROVE  /\ pc' \in [Run -> Ended \cup {"looking", "creating"} \cup Reviewing]
             /\ entry' \in [Run -> 1..Len(Script) + 1]
  <2>1. entry[r] \in 1..Len(Script)
    BY <1>0, <1>2 DEF AtEntry
  <2>2. entry[r] + 1 \in 1..Len(Script) + 1
    BY <1>0, <2>1
  <2> QED
    BY <1>2, <2>2 DEF Advance, Goto
<1>3. ASSUME NEW r \in Run, CreateEntry(r)
      PROVE  rows' \subseteq Entry \ Version
  <2>1. Current(r) \in Entry
    BY <1>3 DEF CreateEntry, AtEntry, Current, Entry
  <2> QED
    BY <1>3, <2>1
       DEF CreateEntry, CreateVersion, CreatePin, CreateRow
<1>4. ASSUME PeopleStep PROVE rows' \subseteq Entry \ Version /\ UNCHANGED <<pc, entry>>
  BY <1>4 DEF PeopleStep, PublishByPeople
<1>5. CASE UNCHANGED allVars
  BY <1>5 DEF allVars, seedVars
<1>6. ASSUME NEW r \in Run, SkipEntry(r) \/ TolerateConflict(r) \/ CreateEntry(r)
      PROVE  /\ rows' \subseteq Entry \ Version
             /\ pc' \in [Run -> Ended \cup {"looking", "creating"} \cup Reviewing]
             /\ entry' \in [Run -> 1..Len(Script) + 1]
  BY <1>2, <1>3, <1>6 DEF SkipEntry, TolerateConflict, CreateEntry
<1> QED
  BY <1>1, <1>4, <1>5, <1>6 DEF SeedNext, SeedStep

-----------------------------------------------------------------------------
(* What a run leaves behind *)

Satisfied(x) == Present(x) \/ (x = Investigator /\ HasVersion(Investigator))

\* The label of an agent is taken by a version of it.
LabelsHaveVersions == \A a \in rows \cap Agent : HasVersion(a)

\* Every entry a run is past is there.
PassedIsThere ==
    \A r \in Run, n \in DOMAIN Script : n < entry[r] => Satisfied(Script[n])

\* The review comes at the end, and by the call the run makes.
ReviewAtEnd ==
    \A r \in Run :
        /\ pc[r] \in Reviewing \cup {"done"} => entry[r] = Len(Script) + 1
        /\ pc[r] = "approving" =>
              call[RunCall[r]].pc = "approving"
              /\ call[RunCall[r]].review = RunReview[r]
        /\ pc[r] = "done" => stage[Reviewed] \in {"RECOMMENDED", "DEPRECATED"}

SeedInv ==
    /\ SkillInv
    /\ SeedTypeOK
    /\ CreatedOnce
    /\ LabelsHaveVersions
    /\ PassedIsThere
    /\ ReviewAtEnd

\* It holds initially.
LEMMA SeedInitInv == SeedInit => SeedInv
<1> SUFFICES ASSUME SeedInit PROVE SeedInv
  OBVIOUS
<1> USE SeedAssumption DEF SeedInit, ImpactInit
<1>1. SkillInv
  BY SkillInitInv
<1>2. ImpactTypeOK
  BY DEF ImpactTypeOK
<1>3. Len(Script) \in Nat /\ DOMAIN Script = 1..Len(Script)
  OBVIOUS
<1>4. SeedTypeOK
  BY <1>1, <1>2, <1>3 DEF SeedTypeOK, SkillInv, Ended
<1>5. CreatedOnce /\ LabelsHaveVersions /\ PassedIsThere /\ ReviewAtEnd
  BY <1>3 DEF CreatedOnce, LabelsHaveVersions, PassedIsThere, ReviewAtEnd, Reviewing
<1> QED
  BY <1>1, <1>4, <1>5 DEF SeedInv

\* What is there stays there.
LEMMA SatisfiedStays ==
    ASSUME SeedInv, [SeedNext]_allVars, NEW x, Satisfied(x)
    PROVE  Satisfied(x)'
<1>0. SeedTypeOK /\ SkillInv
  BY DEF SeedInv
<1>1. /\ HasVersion(x) => HasVersion(x)'
      /\ PinsReviewed(x) => PinsReviewed(x)'
      /\ HasVersion(Investigator) => HasVersion(Investigator)'
  BY <1>0, VersionsStay
<1>2. rows \subseteq rows'
  BY <1>0, RowsGrow
<1>3. x \in Version /\ stage[x] # "absent" => stage'[x] # "absent"
  BY <1>0, SeedStepIsLoose, StageForward
<1>4. Present(x) => Present(x)'
  BY <1>1, <1>2, <1>3 DEF Present
<1> QED
  BY <1>1, <1>4 DEF Satisfied

\* A skill version is created once, and then never absent.
LEMMA CreatedOnceStep ==
    ASSUME SeedInv, [SeedNext]_allVars
    PROVE  CreatedOnce'
<1>0. SeedTypeOK /\ SkillInv /\ created \in Seq(Version)
  BY DEF SeedInv, SeedTypeOK, ImpactTypeOK
<1>1. \A i \in DOMAIN created : stage'[created[i]] # "absent"
  <2> TAKE i \in DOMAIN created
  <2>1. PICK v \in Version : v = created[i]
    BY <1>0
  <2>2. stage[v] # "absent"
    BY <2>1 DEF SeedInv, CreatedOnce
  <2>3. stage'[v] # "absent"
    BY <1>0, <2>2, SeedStepIsLoose, StageForward
  <2> QED
    BY <2>1, <2>3
<1>2. CASE UNCHANGED created
  BY <1>1, <1>2 DEF CreatedOnce
<1>3. ASSUME NEW v \in Version, CreateSkillVersion(v), created' = Append(created, v)
      PROVE  CreatedOnce'
  <2>1. stage'[v] = "PUBLISHED"
    BY <1>0, <1>3 DEF CreateSkillVersion, SkillInv, SkillTypeOK
  <2>2. ASSUME NEW i \in DOMAIN created' PROVE stage'[created'[i]] # "absent"
    <3>1. created'[i] = v \/ (i \in DOMAIN created /\ created'[i] = created[i])
      BY <1>0, <1>3, <2>2
    <3> QED
      BY <1>1, <2>1, <3>1
  <2> QED
    BY <2>2 DEF CreatedOnce
<1> QED
  BY <1>0, <1>2, <1>3, RowsGrow

\* A label is taken together with a version.
LEMMA LabelsStep ==
    ASSUME SeedInv, [SeedNext]_allVars
    PROVE  LabelsHaveVersions'
<1>0. SeedTypeOK /\ consumers \in Seq(AgentVersion)
  BY DEF SeedInv, SeedTypeOK, ImpactTypeOK
<1> SUFFICES ASSUME NEW a \in rows' \cap Agent PROVE HasVersion(a)'
  BY DEF LabelsHaveVersions, HasVersion
<1>1. CASE a \in rows
  BY <1>0, <1>1, VersionsStay DEF SeedInv, LabelsHaveVersions
<1>2. ASSUME NEW x \in AgentVersion, consumers' = Append(consumers, x), a = x.agent
      PROVE  HasVersion(a)'
  <2>1. /\ Len(consumers) + 1 \in DOMAIN consumers'
        /\ consumers'[Len(consumers) + 1] = x
    BY <1>0, <1>2
  <2> QED
    BY <1>2, <2>1 DEF HasVersion
<1> QED
  BY <1>0, <1>1, <1>2, RowsGrow

\* A run only goes past an entry that is there.
LEMMA PassedStep ==
    ASSUME SeedInv, [SeedNext]_allVars
    PROVE  PassedIsThere'
<1> USE SeedAssumption
<1>0. /\ SeedTypeOK /\ SkillInv /\ consumers \in Seq(AgentVersion)
      /\ entry \in [Run -> 1..Len(Script) + 1]
      /\ stage \in [Version -> SkillStage]
      /\ Len(Script) \in Nat /\ DOMAIN Script = 1..Len(Script)
  BY DEF SeedInv, SeedTypeOK, ImpactTypeOK, SkillInv, SkillTypeOK
<1>1. ASSUME NEW r \in Run, SkipEntry(r) PROVE Satisfied(Current(r))
  BY <1>1 DEF SkipEntry, Satisfied
<1>2. ASSUME NEW r \in Run, TolerateConflict(r) PROVE Satisfied(Current(r))
  <2>1. Current(r) \in Entry
    BY <1>2 DEF TolerateConflict, AtEntry, Current, Entry
  <2>2. CASE Current(r) \in Version
    BY <1>2, <2>2 DEF TolerateConflict, Taken, Satisfied, Present
  <2>3. CASE Current(r) \in Agent
    BY <1>2, <2>1, <2>3
       DEF TolerateConflict, Taken, Strict, Satisfied, SeedInv, LabelsHaveVersions
  <2>4. CASE Current(r) \notin Version \cup Agent
    BY <1>2, <2>4 DEF TolerateConflict, Taken, Satisfied, Present
  <2> QED
    BY <2>2, <2>3, <2>4
<1>3. ASSUME NEW r \in Run, CreateEntry(r), NEW x, x = Current(r)
      PROVE  Satisfied(x)'
  <2>1. x \in Entry
    BY <1>3 DEF CreateEntry, AtEntry, Current, Entry
  <2>2. CASE CreateVersion(x)
    BY <1>0, <2>2
       DEF CreateVersion, PublishSkillVersion, CreateSkillVersion, Satisfied, Present
  <2>3. CASE CreateRow(x)
    BY <2>3 DEF CreateRow, Satisfied, Present
  <2>4. CASE CreatePin(x)
    <3>1. /\ x \in {ReleaseRisk, Investigator}
          /\ consumers' = Append(consumers, [agent |-> x, pins |-> {Reviewed}])
      BY <2>1, <2>4 DEF CreatePin, PublishAgentVersion
    <3>2. /\ Len(consumers) + 1 \in DOMAIN consumers'
          /\ consumers'[Len(consumers) + 1] = [agent |-> x, pins |-> {Reviewed}]
      BY <1>0, <2>4, <3>1 DEF CreatePin, AgentVersion
    <3>3. HasVersion(x)' /\ PinsReviewed(x)'
      BY <3>2 DEF HasVersion, PinsReviewed
    <3> QED
      BY <2>4, <3>1, <3>3 DEF Satisfied, Present, CreatePin
  <2> QED
    BY <1>3, <2>2, <2>3, <2>4 DEF CreateEntry
<1>4. \/ UNCHANGED entry
      \/ \E r \in Run :
            /\ SkipEntry(r) \/ TolerateConflict(r) \/ CreateEntry(r)
            /\ entry' = [entry EXCEPT ![r] = @ + 1]
  BY DEF SeedNext, SeedStep, PeopleStep, StartRun, SkipEntry, MissEntry,
         CreateEntry, TolerateConflict, FailOnConflict, SkipReview, WantReview,
         RequestReview, RefuseRequest, FileReview, ApproveReview,
         RefuseApproval, FinishReview, Crash, UnchangedButReview, Advance,
         allVars, seedVars
<1>5. ASSUME NEW q \in Run, NEW n \in DOMAIN Script, n < entry[q]
      PROVE  Satisfied(Script[n])'
  <2>1. Satisfied(Script[n])
    BY <1>5 DEF SeedInv, PassedIsThere
  <2>2. PICK x : x = Script[n]
    OBVIOUS
  <2>3. Satisfied(x)'
    BY <2>1, <2>2, SatisfiedStays
  <2> QED
    BY <2>2, <2>3
<1>6. ASSUME NEW r \in Run, SkipEntry(r) \/ TolerateConflict(r) \/ CreateEntry(r),
             entry' = [entry EXCEPT ![r] = @ + 1]
      PROVE  PassedIsThere'
  <2>1. PICK n \in DOMAIN Script : n = entry[r]
    BY <1>6 DEF SkipEntry, TolerateConflict, CreateEntry, AtEntry
  <2>2. PICK x : x = Script[n]
    OBVIOUS
  <2>3. x = Current(r)
    BY <2>1, <2>2 DEF Current
  <2>4. Satisfied(x)'
    BY <1>1, <1>2, <1>3, <1>6, <2>3, SatisfiedStays
  <2>5. ASSUME NEW q \in Run, NEW m \in DOMAIN Script, m < entry'[q]
        PROVE  Satisfied(Script[m])'
    <3>1. m < entry[q] \/ m = n
      BY <1>0, <1>6, <2>1, <2>5
    <3> QED
      BY <1>5, <2>2, <2>4, <3>1
  <2> QED
    BY <2>5 DEF PassedIsThere, Satisfied, Present, HasVersion, PinsReviewed
<1>7. CASE UNCHANGED entry
  BY <1>5, <1>7 DEF PassedIsThere, Satisfied, Present, HasVersion, PinsReviewed
<1> QED
  BY <1>4, <1>6, <1>7

\* The review of a run is its own, and what it leaves recommended stays so.
LEMMA ReviewAtEndStep ==
    ASSUME SeedInv, [SeedNext]_allVars
    PROVE  ReviewAtEnd'
<1> USE SeedAssumption
<1>0. /\ SkillInv /\ SeedTypeOK
      /\ call \in [Call -> CallState]
      /\ pc \in [Run -> Ended \cup {"looking", "creating"} \cup Reviewing]
      /\ entry \in [Run -> 1..Len(Script) + 1]
      /\ Reviewed \in Version
      /\ Len(Script) \in Nat /\ DOMAIN Script = 1..Len(Script)
  BY DEF SeedInv, SeedTypeOK, SkillInv, SkillTypeOK
<1>1. stage[Reviewed] \in {"RECOMMENDED", "DEPRECATED"}
         => stage'[Reviewed] \in {"RECOMMENDED", "DEPRECATED"}
  BY <1>0, SeedStepIsLoose, StageForward
<1> DEFINE Good(r) ==
       /\ pc'[r] \in Reviewing \cup {"done"} => entry'[r] = Len(Script) + 1
       /\ pc'[r] = "approving" =>
             call'[RunCall[r]].pc = "approving"
             /\ call'[RunCall[r]].review = RunReview[r]
       /\ pc'[r] = "done" => stage'[Reviewed] \in {"RECOMMENDED", "DEPRECATED"}
<1>2. ASSUME NEW r \in Run, pc'[r] = pc[r], entry'[r] = entry[r],
             pc[r] = "approving" => call'[RunCall[r]] = call[RunCall[r]]
      PROVE  Good(r)
  BY <1>1, <1>2 DEF SeedInv, ReviewAtEnd
<1>3. ASSUME NEW r \in Run, pc'[r] \notin Reviewing \cup {"done"}
      PROVE  Good(r)
  BY <1>3 DEF Reviewing
<1>4. ASSUME NEW s \in Run, SeedStep(s)
      PROVE  /\ \A r \in Run \ {s} : pc'[r] = pc[r] /\ entry'[r] = entry[r]
             /\ \A c \in Call \ {RunCall[s]} : call'[c] = call[c]
  <2>1. CASE CreateEntry(s)
    BY <1>0, <2>1
       DEF CreateEntry, CreateVersion, CreatePin, CreateRow, PublishSkillVersion,
           PublishAgentVersion, CreateSkillVersion, Advance, Goto, impactVars,
           skillVars
  <2>2. CASE Crash(s)
    BY <1>0, <2>2
       DEF Crash, Goto, UnchangedButReview, AbandonFiling, AbandonCall, Release,
           skillVars
  <2>3. CASE \/ StartRun(s) \/ MissEntry(s) \/ FailOnConflict(s) \/ SkipReview(s)
             \/ WantReview(s) \/ RefuseRequest(s) \/ RefuseApproval(s)
    BY <1>0, <2>3
       DEF StartRun, MissEntry, FailOnConflict, SkipReview, WantReview,
           RefuseRequest, RefuseApproval, Goto, impactVars, skillVars
  <2>4. CASE SkipEntry(s) \/ TolerateConflict(s)
    BY <1>0, <2>4
       DEF SkipEntry, TolerateConflict, Advance, Goto, impactVars, skillVars
  <2>5. CASE RequestReview(s) \/ FileReview(s)
    BY <1>0, <2>5
       DEF RequestReview, FileReview, StartFiling, CommitFiling, Goto,
           UnchangedButReview
  <2>6. CASE ApproveReview(s) \/ FinishReview(s)
    BY <1>0, <2>6
       DEF ApproveReview, FinishReview, StartApproval, CommitApproval, Release,
           Goto, UnchangedButReview
  <2> QED
    BY <1>4, <2>1, <2>2, <2>3, <2>4, <2>5, <2>6 DEF SeedStep
<1>5. ASSUME NEW s \in Run, SeedStep(s) PROVE Good(s)
  <2>2. CASE StartRun(s) \/ SkipEntry(s) \/ MissEntry(s) \/ CreateEntry(s)
             \/ TolerateConflict(s) \/ FailOnConflict(s) \/ RefuseRequest(s)
             \/ RefuseApproval(s) \/ Crash(s)
    <3>1. pc'[s] \notin Reviewing \cup {"done"}
      BY <1>0, <2>2
         DEF StartRun, SkipEntry, MissEntry, CreateEntry, TolerateConflict,
             FailOnConflict, RefuseRequest, RefuseApproval, Crash, Goto, Advance,
             Reviewing
    <3> QED
      BY <1>3, <3>1
  <2>3. CASE WantReview(s)
    BY <1>0, <2>3 DEF WantReview, AtEnd, Goto, seedVars
  <2>4. CASE SkipReview(s)
    <3>1. entry[s] = Len(Script) + 1 /\ stage[Reviewed] # "PUBLISHED"
      BY <2>4 DEF SkipReview, AtEnd
    <3>2. PICK n \in DOMAIN Script : Script[n] = Reviewed
      BY DEF Entry
    <3>3. Satisfied(Reviewed)
      BY <1>0, <3>1, <3>2 DEF SeedInv, PassedIsThere
    <3>4. stage[Reviewed] # "absent"
      BY <1>0, <3>3 DEF Satisfied, Present
    <3>5. stage[Reviewed] \in SkillStage
      BY <1>0 DEF SkillInv, SkillTypeOK
    <3>6. stage[Reviewed] \in {"RECOMMENDED", "DEPRECATED"}
      BY <3>1, <3>4, <3>5 DEF SkillStage
    <3> QED
      BY <1>0, <1>1, <2>4, <3>1, <3>6 DEF SkipReview, Goto
  <2>5. CASE RequestReview(s) \/ FileReview(s)
    BY <1>0, <2>5
       DEF RequestReview, FileReview, UnchangedButReview, Goto, Reviewing,
           SeedInv, ReviewAtEnd
  <2>6. CASE ApproveReview(s)
    <3>1. /\ pc[s] = "filed" /\ pc' = [pc EXCEPT ![s] = "approving"]
          /\ entry' = entry
          /\ call' = [call EXCEPT ![RunCall[s]] =
                        [pc |-> "approving", review |-> RunReview[s],
                         prod |-> Recommended(SkillOf(RunReview[s]))]]
      BY <2>6 DEF ApproveReview, StartApproval, UnchangedButReview, Goto
    <3>2. entry[s] = Len(Script) + 1
      BY <3>1 DEF SeedInv, ReviewAtEnd, Reviewing
    <3> QED
      BY <1>0, <3>1, <3>2
  <2>7. CASE FinishReview(s)
    <3>1. /\ pc[s] = "approving" /\ pc' = [pc EXCEPT ![s] = "done"]
          /\ entry' = entry
          /\ CommitApproval(RunCall[s]) /\ call[RunCall[s]].review = RunReview[s]
      BY <2>7
         DEF FinishReview, UnchangedButReview, Goto, SeedInv, ReviewAtEnd
    <3>2. entry[s] = Len(Script) + 1
      BY <3>1 DEF SeedInv, ReviewAtEnd, Reviewing
    <3>3. stage'[Reviewed] = "RECOMMENDED"
      BY <1>0, <3>1 DEF CommitApproval
    <3> QED
      BY <1>0, <3>1, <3>2, <3>3
  <2> QED
    BY <1>5, <2>2, <2>3, <2>4, <2>5, <2>6, <2>7 DEF SeedStep
<1>6. ASSUME PeopleStep
      PROVE  /\ UNCHANGED <<pc, entry>>
             /\ \A r \in Run : call'[RunCall[r]] = call[RunCall[r]]
  <2>1. ASSUME NEW c \in Call, NEW q \in Review, ~OwnCall(c),
               BeginApproval(c, q) \/ BeginRejection(c, q)
        PROVE  \A r \in Run : call'[RunCall[r]] = call[RunCall[r]]
    BY <1>0, <2>1 DEF OwnCall, BeginApproval, StartApproval, BeginRejection
  <2>2. ASSUME NEW c \in Call, ~OwnCall(c),
               CommitApproval(c) \/ CommitRejection(c) \/ AbandonCall(c)
        PROVE  \A r \in Run : call'[RunCall[r]] = call[RunCall[r]]
    BY <1>0, <2>2 DEF OwnCall, CommitApproval, CommitRejection, AbandonCall, Release
  <2>3. ASSUME NEW q \in Review, BeginFiling(q) \/ CommitFiling(q) \/ AbandonFiling(q)
        PROVE  UNCHANGED call
    BY <2>3 DEF BeginFiling, StartFiling, CommitFiling, AbandonFiling
  <2>4. ASSUME ReviewByPeople
        PROVE  \A r \in Run : call'[RunCall[r]] = call[RunCall[r]]
    BY <2>1, <2>2, <2>3, <2>4 DEF ReviewByPeople
  <2> QED
    BY <1>6, <2>4
       DEF PeopleStep, PublishByPeople, PublishSkillVersion, CreateSkillVersion,
           PublishAgentVersion, RetireAgentVersion, RestoreAgentVersion, skillVars
<1>7. \A r \in Run : Good(r)
  <2> TAKE r \in Run
  <2>1. CASE UNCHANGED allVars
    BY <1>2, <2>1 DEF allVars, seedVars, impactVars, skillVars
  <2>2. CASE PeopleStep
    BY <1>2, <1>6, <2>2
  <2>3. ASSUME NEW s \in Run, SeedStep(s) PROVE Good(r)
    <3>1. CASE r = s
      BY <1>5, <2>3, <3>1
    <3>2. CASE r # s
      BY <1>2, <1>4, <2>3, <3>2
    <3> QED
      BY <3>1, <3>2
  <2> QED
    BY <2>1, <2>2, <2>3 DEF SeedNext
<1> QED
  BY <1>7 DEF ReviewAtEnd

\* Every step keeps the invariant.
LEMMA SeedStepInv == SeedInv /\ [SeedNext]_allVars => SeedInv'
<1> SUFFICES ASSUME SeedInv, [SeedNext]_allVars PROVE SeedInv'
  OBVIOUS
<1>1. SkillInv'
  BY SeedStepIsLoose, LooseStepKeepsSkillInv DEF SeedInv
<1>2. SeedTypeOK'
  BY <1>1, ImpactStepType, SeedVarsStepType DEF SeedInv, SeedTypeOK, SkillInv
<1> QED
  BY <1>1, <1>2, CreatedOnceStep, LabelsStep, PassedStep, ReviewAtEndStep DEF SeedInv

\* The inductive invariant is an invariant.
LEMMA SeedInvariance == SeedSpec => []SeedInv
BY SeedInitInv, SeedStepInv, PTL DEF SeedSpec

-----------------------------------------------------------------------------
(* The theorems *)

\* The script, the reviews and the views keep their types.
THEOREM SeedTypeCorrect == SeedSpec => []SeedTypeOK
BY SeedInvariance, PTL DEF SeedInv

\* At most one version of a skill is recommended, although the script approves
\* on a stage it read before.
THEOREM RecommendedSkillIsUnique == SeedSpec => []OneRecommended
BY SeedInvariance, PTL DEF SeedInv, SkillInv

\* A review gets one decision, of the kind its status says.
THEOREM SkillDecisionIsUnique == SeedSpec => []DecidedOnce
BY SeedInvariance, PTL DEF SeedInv, SkillInv

\* Only an approval recommends a version, and only a recommended version becomes
\* deprecated.
THEOREM DeprecationIsOfApproved == SeedSpec => []DeprecatedWasApproved
BY SeedInvariance, PTL DEF SeedInv, SkillInv

\* A run of the script that ends well leaves the whole organization behind, with
\* any number of runs that overlap or died anywhere, and whatever people did.
THEOREM SeedCompletes == SeedSpec => []SeedIsComplete
<1>1. SeedInv => SeedIsComplete
  <2> SUFFICES ASSUME SeedInv, NEW r \in Run, pc[r] = "done"
               PROVE  /\ \A x \in Entry : Satisfied(x)
                      /\ stage[Reviewed] \in {"RECOMMENDED", "DEPRECATED"}
                      /\ \E q \in Review :
                            ReviewVersion[q] = Reviewed /\ status[q] = "APPROVED"
    BY DEF SeedIsComplete, Satisfied
  <2>1. Len(Script) \in Nat /\ DOMAIN Script = 1..Len(Script) /\ Reviewed \in Version
    BY SeedAssumption
  <2>2. /\ entry[r] = Len(Script) + 1
        /\ stage[Reviewed] \in {"RECOMMENDED", "DEPRECATED"}
    BY DEF SeedInv, ReviewAtEnd
  <2>3. ASSUME NEW x \in Entry PROVE Satisfied(x)
    <3>1. PICK n \in DOMAIN Script : Script[n] = x
      BY DEF Entry
    <3> QED
      BY <2>1, <2>2, <3>1 DEF SeedInv, PassedIsThere
  <2>4. \E q \in Review : ReviewVersion[q] = Reviewed /\ status[q] = "APPROVED"
    BY <2>1, <2>2 DEF SeedInv, SkillInv, DeprecatedWasApproved
  <2> QED
    BY <2>2, <2>3, <2>4
<1> QED
  BY <1>1, SeedInvariance, PTL

\* What is published on the side of a skill never takes an agent off the list of
\* those that are behind: older versions only become more.
THEOREM NoAgentUpgradesSilently == SeedSpec => NoSilentUpgrade
<1> DEFINE Silent == \A s \in Skill :
                UNCHANGED <<consumers, retired>>
                   => AgentsBehind(s) \subseteq AgentsBehind(s)'
<1>1. ASSUME SeedInv, [SeedNext]_allVars PROVE [Silent]_impactVars
  <2> SUFFICES ASSUME NEW s \in Skill, UNCHANGED <<consumers, retired>>
               PROVE  AgentsBehind(s) \subseteq AgentsBehind(s)'
    OBVIOUS
  <2>0. created \in Seq(Version)
    BY <1>1 DEF SeedInv, SeedTypeOK, ImpactTypeOK
  <2>1. OlderVersions(s) \subseteq OlderVersions(s)'
    <3>1. CASE UNCHANGED created
      BY <3>1 DEF OlderVersions, LatestVersion, Published
    <3>2. ASSUME NEW v \in Version, CreateSkillVersion(v), created' = Append(created, v)
          PROVE  OlderVersions(s) \subseteq OlderVersions(s)'
      <4>1. /\ DOMAIN created = 1..Len(created) /\ Len(created) \in Nat
            /\ DOMAIN created' = 1..Len(created) + 1
            /\ created'[Len(created) + 1] = v
            /\ \A i \in DOMAIN created : created'[i] = created[i]
        BY <2>0, <3>2
      <4>2. \A i \in DOMAIN created : created[i] # v
        BY <1>1, <3>2 DEF SeedInv, CreatedOnce, CreateSkillVersion
      <4>3. CASE VersionSkill[v] = s
        <5>1. Published(s)' = Published(s) \cup {Len(created) + 1}
          BY <4>1, <4>3 DEF Published
        <5>2. {j \in Published(s)' : \A k \in Published(s)' : k <= j}
                 = {Len(created) + 1}
          BY <4>1, <5>1 DEF Published
        <5>3. LatestVersion(s)' = {v}
          BY <4>1, <5>2 DEF LatestVersion
        <5>4. ASSUME NEW i \in Published(s)
              PROVE  created[i] \in OlderVersions(s)'
          BY <4>1, <4>2, <5>1, <5>3 DEF OlderVersions, Published
        <5> QED
          BY <5>4 DEF OlderVersions
      <4>4. CASE VersionSkill[v] # s
        <5>1. Published(s)' = Published(s)
          BY <4>1, <4>4 DEF Published
        <5>2. \A i \in Published(s) : created'[i] = created[i]
          BY <4>1 DEF Published
        <5> QED
          BY <5>1, <5>2 DEF OlderVersions, LatestVersion
      <4> QED
        BY <4>3, <4>4
    <3>3. SeedTypeOK
      BY <1>1 DEF SeedInv
    <3> QED
      BY <1>1, <3>1, <3>2, <3>3, RowsGrow
  <2>2. HistoricalConsumers(s) \subseteq HistoricalConsumers(s)'
    BY <2>1 DEF HistoricalConsumers
  <2>3. \A a : NewestInUse(a)' = NewestInUse(a)
    BY DEF NewestInUse
  <2>4. CurrentImpact(s) \subseteq CurrentImpact(s)'
    BY <2>2, <2>3 DEF CurrentImpact
  <2> QED
    BY <2>4 DEF AgentsBehind
<1> QED
  BY <1>1, SeedInvariance, PTL DEF SeedSpec, NoSilentUpgrade

-----------------------------------------------------------------------------
(* The slot beside the script *)

\* Whoever calls them, the services of the reviews take loose steps.
LooseSpec == SkillInit /\ [][LooseStep]_skillVars

\* That goes for the handlers and for the script.
LEMMA BothAreLoose == SkillSpec \/ SeedSpec => LooseSpec
<1>1. SeedInit => SkillInit
  BY DEF SeedInit, ImpactInit
<1>2. [SkillNext]_skillVars => [LooseStep]_skillVars
  BY SkillStepIsLoose
<1>3. [SeedNext]_allVars => [LooseStep]_skillVars
  BY SeedStepIsLoose
<1> QED
  BY <1>1, <1>2, <1>3, PTL DEF LooseSpec, SkillSpec, SeedSpec

\* Loose steps keep the invariant of the reviews.
LEMMA LooseInvariance == LooseSpec => []SkillInv
<1>1. SkillInv /\ [LooseStep]_skillVars => SkillInv'
  BY LooseStepKeepsSkillInv
<1> QED
  BY <1>1, SkillInitInv, PTL DEF LooseSpec

\* The recommended version moves to the version of a pending review that is
\* approved in this step, and in no other way.
SlotMovesByApproval ==
    \A s \in Skill :
        \/ Recommended(s)' = Recommended(s)
        \/ \E r \in Review :
              /\ SkillOf(r) = s
              /\ status[r] = "PENDING" /\ status'[r] = "APPROVED"
              /\ Recommended(s)' = {ReviewVersion[r]}

\* A loose step moves the slot of a skill by an approval.
LEMMA LooseSlotStep ==
    ASSUME SkillInv, [LooseStep]_skillVars
    PROVE  SlotMovesByApproval
<1>0. /\ status \in [Review -> {"absent", "PENDING", "APPROVED", "REJECTED"}]
      /\ stage \in [Version -> SkillStage]
  BY DEF SkillInv, SkillTypeOK
<1>1. CASE UNCHANGED stage
  BY <1>1 DEF SlotMovesByApproval, Recommended
<1>2. ASSUME NEW v \in Version, CreateSkillVersion(v) PROVE SlotMovesByApproval
  BY <1>0, <1>2 DEF CreateSkillVersion, SlotMovesByApproval, Recommended
<1>3. ASSUME NEW c \in Call, CommitApproval(c) PROVE SlotMovesByApproval
  <2>1. PICK r \in Review : r = call[c].review /\ status[r] = "PENDING"
    BY <1>3, RunningCall DEF CommitApproval
  <2>2. /\ Recommended(SkillOf(r))' = {ReviewVersion[r]}
        /\ \A v \in Version : VersionSkill[v] # SkillOf(r) => stage'[v] = stage[v]
    BY <1>3, <2>1, ApprovalMovesSlot
  <2>3. status'[r] = "APPROVED"
    BY <1>0, <1>3, <2>1 DEF CommitApproval
  <2>4. \A s \in Skill \ {SkillOf(r)} : Recommended(s)' = Recommended(s)
    BY <2>2 DEF Recommended
  <2> QED
    BY <2>1, <2>2, <2>3, <2>4 DEF SlotMovesByApproval
<1> QED
  BY <1>1, <1>2, <1>3
     DEF LooseStep, StartFiling, CommitFiling, AbandonFiling, StartApproval,
         BeginRejection, CommitRejection, AbandonCall, skillVars

\* What is left of the promise of RecommendedSlot when the script approves on a
\* stage it read before: the recommended version changes only by the approval of
\* a pending review, though perhaps of the version that is recommended already.
THEOREM SlotMovesOnlyByApproval ==
    SkillSpec \/ SeedSpec => [][SlotMovesByApproval]_skillVars
<1>1. SkillInv /\ [LooseStep]_skillVars => [SlotMovesByApproval]_skillVars
  BY LooseSlotStep
<1> QED
  BY <1>1, BothAreLoose, LooseInvariance, PTL DEF LooseSpec

\* A skill that has a recommended version always has one: an approval never
\* deprecates without recommending, wherever handlers or the script die.
THEOREM SkillSlotNeverEmpties ==
    \A s \in Skill :
        SkillSpec \/ SeedSpec => [](Recommended(s) # {} => [](Recommended(s) # {}))
<1> TAKE s \in Skill
<1>1. SkillInv /\ [LooseStep]_skillVars /\ Recommended(s) # {}
         => (Recommended(s) # {})'
  BY LooseSlotStep DEF SlotMovesByApproval
<1> QED
  BY <1>1, BothAreLoose, LooseInvariance, PTL DEF LooseSpec

\* A decided review keeps its status, and no decision is removed.
ReviewsKept ==
    /\ \A r \in Review :
          status[r] \in {"APPROVED", "REJECTED"} => status'[r] = status[r]
    /\ decisions \subseteq decisions'
    /\ \A v \in Version :
          stage[v] \in {"RECOMMENDED", "DEPRECATED"}
             => stage'[v] \in {"RECOMMENDED", "DEPRECATED"}

\* Only absent reviews are filed and only pending ones decided.
LEMMA LooseReviewStep ==
    ASSUME SkillInv, [LooseStep]_skillVars
    PROVE  ReviewsKept
<1>0. status \in [Review -> {"absent", "PENDING", "APPROVED", "REJECTED"}]
  BY DEF SkillInv, SkillTypeOK
<1> DEFINE Kept == /\ \A r \in Review : status[r] \in {"APPROVED", "REJECTED"}
                                         => status'[r] = status[r]
                   /\ decisions \subseteq decisions'
<1>1. ASSUME UNCHANGED <<status, decisions>> PROVE Kept
  BY <1>1
<1>2. ASSUME NEW q \in Review, CommitFiling(q) PROVE Kept
  BY <1>0, <1>2 DEF CommitFiling, SkillInv, FiledOnce
<1>3. ASSUME NEW c \in Call, CommitApproval(c) \/ CommitRejection(c) PROVE Kept
  <2>1. call[c].review \in Review /\ status[call[c].review] = "PENDING"
    BY <1>3, RunningCall DEF CommitApproval, CommitRejection
  <2> QED
    BY <1>0, <1>3, <2>1 DEF CommitApproval, CommitRejection
<1>4. Kept
  BY <1>1, <1>2, <1>3
     DEF LooseStep, CreateSkillVersion, StartFiling, AbandonFiling, StartApproval,
         BeginRejection, AbandonCall, skillVars
<1> QED
  BY <1>4, StageForward DEF ReviewsKept

\* A decided review is never reopened or decided again and its decision stays;
\* a version that was recommended never counts as merely published again.
THEOREM SkillDecisionsAreFinal == SkillSpec \/ SeedSpec => [][ReviewsKept]_skillVars
<1>1. SkillInv /\ [LooseStep]_skillVars => [ReviewsKept]_skillVars
  BY LooseReviewStep
<1> QED
  BY <1>1, BothAreLoose, LooseInvariance, PTL DEF LooseSpec
=============================================================================
