--------------------------- MODULE RecommendedSlot ---------------------------
(***************************************************************************)
(* What reviewing promises to whoever consumes an agent or a skill: each   *)
(* owner of versions has one slot, and the version in it changes in one    *)
(* way only, a reviewer approving a pending request for another version.   *)
(* Once filled the slot is never empty again, and a request is decided     *)
(* once.  SkillReview implements this specification; PromotionReview does  *)
(* as long as no version is evaluated twice.                               *)
(***************************************************************************)
CONSTANTS
    Owner,          \* agents or skills
    Version,        \* their versions
    VersionOwner,   \* the owner of each version
    Request,        \* review requests
    RequestVersion, \* the version each request is about
    NoVersion       \* an empty slot

VARIABLES
    slot,   \* slot[o]: the recommended version of o
    status  \* status[r]: the state of a request

slotVars == <<slot, status>>

SlotInit ==
    /\ slot = [o \in Owner |-> NoVersion]
    /\ status = [r \in Request |-> "absent"]

File(r) ==
    /\ status[r] = "absent"
    /\ status' = [status EXCEPT ![r] = "PENDING"]
    /\ UNCHANGED slot

Approve(r) ==
    LET v == RequestVersion[r]
        o == VersionOwner[v]
    IN
    /\ status[r] = "PENDING"
    /\ slot[o] # v
    /\ status' = [status EXCEPT ![r] = "APPROVED"]
    /\ slot' = [slot EXCEPT ![o] = v]

Reject(r) ==
    /\ status[r] = "PENDING"
    /\ status' = [status EXCEPT ![r] = "REJECTED"]
    /\ UNCHANGED slot

SlotNext == \E r \in Request : File(r) \/ Approve(r) \/ Reject(r)

SlotSpec == SlotInit /\ [][SlotNext]_slotVars
=============================================================================
