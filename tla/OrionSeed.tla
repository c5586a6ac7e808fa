------------------------------ MODULE OrionSeed ------------------------------
(***************************************************************************)
(* scripts/seed_orion_commerce.py: a script that looks for each row of the *)
(* sample organization, creates what is missing through the services, and  *)
(* has one skill version reviewed.  It commits after every row, so it can  *)
(* die or meet another run of itself between any two of them; people use   *)
(* the platform meanwhile.                                                 *)
(*                                                                         *)
(* A run uses one session, which never expires what it has loaded: the     *)
(* services it calls for the review act on the lifecycle row the script    *)
(* read before it called them.                                             *)
(***************************************************************************)
EXTENDS SkillImpact

CONSTANTS
    Run,          \* runs of the script
    Script,       \* what the script sees to, in its order
    Organization, \* its first entry: teams, users and agents, in one commit
    Reviewed,     \* the skill version it has reviewed: deployment-analysis@1.3
    ReleaseRisk,  \* the agent it creates a version of if there is none
    Investigator, \* the agent it creates a version of if none pins Reviewed
    CiLocked,     \* requires_ci_provenance of Investigator
    RunReview,    \* the review request each run files
    RunCall,      \* the call of approve_skill_review each run makes
    Overlapping,  \* two runs may run at the same time
    Manifest      \* the pins of the agent versions people publish

Entry == {Script[n] : n \in DOMAIN Script}

ASSUME SeedAssumption ==
    /\ Script \in Seq(Entry)
    /\ Organization \notin Version \cup Agent
    /\ Reviewed \in Entry \cap Version
    /\ {ReleaseRisk, Investigator} \subseteq Agent
    /\ ReleaseRisk # Investigator
    /\ Version \cap Agent = {}
    /\ Entry \cap Agent \subseteq {ReleaseRisk, Investigator}
    /\ CiLocked \in BOOLEAN
    /\ RunReview \in [Run -> Review]
    /\ RunCall \in [Run -> Call]
    /\ \A r, q \in Run : r # q => RunReview[r] # RunReview[q] /\ RunCall[r] # RunCall[q]
    /\ \A r \in Run : ReviewVersion[RunReview[r]] = Reviewed
    /\ Overlapping \in BOOLEAN
    /\ Manifest \subseteq SUBSET Version

VARIABLES
    rows, \* other rows than skill versions, an agent for the label of the
          \* version of it in Script
    pc,   \* pc[r]: what a run is doing
    entry \* entry[r]: the entry of Script it is at

seedVars == <<rows, pc, entry>>

allVars == <<impactVars, seedVars>>

Ended == {"idle", "done", "failed", "crashed"}

Reviewing == {"requesting", "filing", "filed", "approving"}

SeedTypeOK ==
    /\ SkillTypeOK
    /\ ImpactTypeOK
    /\ rows \subseteq Entry \ Version
    /\ pc \in [Run -> Ended \cup {"looking", "creating"} \cup Reviewing]
    /\ entry \in [Run -> 1..Len(Script) + 1]

SeedInit ==
    /\ ImpactInit
    /\ rows = {}
    /\ pc = [r \in Run |-> "idle"]
    /\ entry = [r \in Run |-> 1]

-----------------------------------------------------------------------------
HasVersion(a) == \E i \in DOMAIN consumers : consumers[i].agent = a

PinsReviewed(a) ==
    \E i \in DOMAIN consumers :
        consumers[i].agent = a /\ Reviewed \in consumers[i].pins

\* What the script finds when it looks for an entry.
Present(x) ==
    CASE x \in Version -> stage[x] # "absent"
      [] x = ReleaseRisk -> HasVersion(x)
      [] x = Investigator -> CiLocked \/ PinsReviewed(x)
      [] OTHER -> x \in rows

\* What the service refuses to create, or the unique constraint.
Taken(x) == IF x \in Version THEN stage[x] # "absent" ELSE x \in rows

\* The entries created outside any "except ConflictError".
Strict == {Organization, ReleaseRisk}

Goto(r, p) == pc' = [pc EXCEPT ![r] = p]

Advance(r) ==
    /\ entry' = [entry EXCEPT ![r] = @ + 1]
    /\ Goto(r, "looking")

Current(r) == Script[entry[r]]

-----------------------------------------------------------------------------
StartRun(r) ==
    /\ pc[r] = "idle"
    /\ Overlapping \/ \A q \in Run : pc[q] \in Ended
    /\ Goto(r, "looking")
    /\ UNCHANGED <<impactVars, rows, entry>>

AtEntry(r, p) == pc[r] = p /\ entry[r] \in DOMAIN Script

SkipEntry(r) ==
    /\ AtEntry(r, "looking")
    /\ Present(Current(r))
    /\ Advance(r)
    /\ UNCHANGED <<impactVars, rows>>

MissEntry(r) ==
    /\ AtEntry(r, "looking")
    /\ ~Present(Current(r))
    /\ Goto(r, "creating")
    /\ UNCHANGED <<impactVars, rows, entry>>

CreateVersion(x) == x \in Version /\ PublishSkillVersion(x) /\ UNCHANGED rows

CreatePin(x) ==
    /\ x \in Agent
    /\ PublishAgentVersion(x, {Reviewed})
    /\ rows' = rows \cup {x}

CreateRow(x) ==
    /\ x \notin Version \cup Agent
    /\ rows' = rows \cup {x}
    /\ UNCHANGED impactVars

\* The service commits the row.
CreateEntry(r) ==
    /\ AtEntry(r, "creating")
    /\ ~Taken(Current(r))
    /\ \/ CreateVersion(Current(r))
       \/ CreatePin(Current(r))
       \/ CreateRow(Current(r))
    /\ Advance(r)

\* Somebody created it since the script looked, as the service finds before it
\* inserts; or Investigator has the label with other pins.
TolerateConflict(r) ==
    /\ AtEntry(r, "creating")
    /\ Taken(Current(r))
    /\ Current(r) \notin Strict
    /\ Advance(r)
    /\ UNCHANGED <<impactVars, rows>>

\* The same, where the script does not catch it or only a unique constraint
\* notices.
FailOnConflict(r) ==
    /\ AtEntry(r, "creating")
    /\ Taken(Current(r))
    /\ Goto(r, "failed")
    /\ UNCHANGED <<impactVars, rows, entry>>

-----------------------------------------------------------------------------
(* The end of seed_shared_skill_story *)

AtEnd(r) == pc[r] = "looking" /\ entry[r] = Len(Script) + 1

\* Mutant: a review that is pending is taken for one that was decided.
SkipPending(r) ==
    /\ AtEnd(r)
    /\ stage[Reviewed] # "PUBLISHED" \/ HasPending(Reviewed)
    /\ Goto(r, "done")
    /\ UNCHANGED <<impactVars, rows, entry>>

SkipReview(r) ==
    /\ AtEnd(r)
    /\ stage[Reviewed] # "PUBLISHED"
    /\ Goto(r, "done")
    /\ UNCHANGED <<impactVars, rows, entry>>

WantReview(r) ==
    /\ AtEnd(r)
    /\ stage[Reviewed] = "PUBLISHED"
    /\ Goto(r, "requesting")
    /\ UNCHANGED <<impactVars, rows, entry>>

UnchangedButReview == UNCHANGED <<created, consumers, retired, rows, entry>>

\* request_skill_review: the stage is the one WantReview saw.
RequestReview(r) ==
    /\ pc[r] = "requesting"
    /\ StartFiling(RunReview[r])
    /\ Goto(r, "filing")
    /\ UnchangedButReview

\* ConflictError, which the script does not catch here.
RefuseRequest(r) ==
    /\ pc[r] = "requesting"
    /\ HasPending(Reviewed)
    /\ Goto(r, "failed")
    /\ UNCHANGED <<impactVars, rows, entry>>

FileReview(r) ==
    /\ pc[r] = "filing"
    /\ CommitFiling(RunReview[r])
    /\ Goto(r, "filed")
    /\ UnchangedButReview

\* approve_skill_review, with the same stage.
ApproveReview(r) ==
    /\ pc[r] = "filed"
    /\ StartApproval(RunCall[r], RunReview[r])
    /\ Goto(r, "approving")
    /\ UnchangedButReview

\* Under the lock, the request turns out to be decided.
RefuseApproval(r) ==
    /\ pc[r] = "filed"
    /\ lock[SkillOf(RunReview[r])] = NoCall
    /\ status[RunReview[r]] # "PENDING"
    /\ Goto(r, "failed")
    /\ UNCHANGED <<impactVars, rows, entry>>

FinishReview(r) ==
    /\ pc[r] = "approving"
    /\ CommitApproval(RunCall[r])
    /\ Goto(r, "done")
    /\ UnchangedButReview

\* The process dies; what its transaction held is rolled back.
Crash(r) ==
    /\ pc[r] \notin Ended
    /\ Goto(r, "crashed")
    /\ CASE pc[r] = "filing" -> AbandonFiling(RunReview[r])
         [] pc[r] = "approving" -> AbandonCall(RunCall[r])
         [] OTHER -> UNCHANGED skillVars
    /\ UnchangedButReview

SeedStep(r) ==
    \/ StartRun(r) \/ SkipEntry(r) \/ MissEntry(r)
    \/ CreateEntry(r) \/ TolerateConflict(r) \/ FailOnConflict(r)
    \/ SkipReview(r) \/ WantReview(r)
    \/ RequestReview(r) \/ RefuseRequest(r) \/ FileReview(r)
    \/ ApproveReview(r) \/ RefuseApproval(r) \/ FinishReview(r)
    \/ Crash(r)

-----------------------------------------------------------------------------
(* Everybody else: other reviews, decisions of any review, versions *)

OwnReview(q) == \E r \in Run : RunReview[r] = q

OwnCall(c) == \E r \in Run : RunCall[r] = c

ReviewByPeople ==
    \/ \E q \in Review :
          /\ ~OwnReview(q)
          /\ BeginFiling(q) \/ CommitFiling(q) \/ AbandonFiling(q)
    \/ \E c \in Call, q \in Review :
          ~OwnCall(c) /\ (BeginApproval(c, q) \/ BeginRejection(c, q))
    \/ \E c \in Call :
          ~OwnCall(c) /\ (CommitApproval(c) \/ CommitRejection(c) \/ AbandonCall(c))

\* A version of an agent, under the label the script uses or another one.
PublishByPeople ==
    \E a \in Agent, pins \in Manifest :
        /\ PublishAgentVersion(a, pins)
        /\ rows' = rows \/ (a \in Entry \ rows /\ rows' = rows \cup {a})

PeopleStep ==
    /\ \/ /\ \/ ReviewByPeople /\ UNCHANGED <<created, consumers, retired>>
             \/ \E v \in Version \ Entry : PublishSkillVersion(v)
             \/ \E i \in DOMAIN consumers :
                   RetireAgentVersion(i) \/ RestoreAgentVersion(i)
          /\ UNCHANGED rows
       \/ PublishByPeople
    /\ UNCHANGED <<pc, entry>>

SeedNext == PeopleStep \/ \E r \in Run : SeedStep(r)

SeedSpec == SeedInit /\ [][SeedNext]_allVars

-----------------------------------------------------------------------------
(* Properties *)

\* A run that ends well leaves the whole organization behind, and the reviewed
\* version has been recommended on a review that was approved, wherever earlier
\* runs died and whatever people did.  Only Investigator may be without its pin
\* if people published a version of it.
SeedIsComplete ==
    (\E r \in Run : pc[r] = "done") =>
        /\ \A x \in Entry :
              Present(x) \/ (x = Investigator /\ HasVersion(Investigator))
        /\ stage[Reviewed] \in {"RECOMMENDED", "DEPRECATED"}
        /\ \E q \in Review :
              ReviewVersion[q] = Reviewed /\ status[q] = "APPROVED"

\* Stated by the script itself ("Idempotent throughout"): a run after another
\* one, finished or not, does not fail.
RerunSucceeds == \A r \in Run : pc[r] # "failed"
=============================================================================
